---- MODULE Spec2Model ----
(***************************************************************************)
(* The adaptive multi-tier face detection and filtering pipeline of        *)
(* face_backend: core/image_enhancer.py, core/hof_models.py,               *)
(* core/adaptive_detector.py, core/intelligent_face_detector.py,           *)
(* core/smart_face_filter.py and core/single_person_optimizer.py.          *)
(*                                                                         *)
(* Numbers.  Python floats are modelled by exact fixed-point integers:     *)
(*   - quality sub-scores of an image in tenths (0..1000 for 0..100),      *)
(*   - the composite quality score in thousandths (0..100000),             *)
(*   - a region quality (strategy_quality) in twentieths (0..2000),        *)
(*   - a confidence as an exact fraction <<num, den>>,                     *)
(*   - raw YOLO coordinates in halves, so that int() truncates.            *)
(* Pixel data is abstracted to the statistics the code reads from it.      *)
(***************************************************************************)
EXTENDS Integers, Sequences, FiniteSets, TLC

VARIABLES
    models,          \* HallOfFacesModels.models: the set of cached model types
    current_model,   \* HallOfFacesModels.current_model
    opencv_cascade,  \* HallOfFacesModels.opencv_cascade: TRUE = a classifier, FALSE = None
    model_file,      \* environment: yolov8n-face.pt is on disk and YOLO() can load it
    pc,              \* "idle" | "done" | "repeated": position of the calling code
    call,            \* the operation last called, with its arguments
    ret,             \* what it returned
    prev,            \* what the previous, identical call returned (a repeated run)
    threads,         \* concurrent callers of load_model: position and locals of each
    cached,          \* HallOfFacesModels.models: the handle stored under each cached type
    constructed      \* how many times YOLO(...) was constructed by the concurrent callers

vars == <<models, current_model, opencv_cascade, model_file, pc, call, ret, prev,
          threads, cached, constructed>>

----------------------------------------------------------------------------
(* Bounds of the model *)

\* longest list of raw candidates handed to detect_optimal_faces
MaxFaces == 3

----------------------------------------------------------------------------
(* Arithmetic helpers *)

Max(a, b) == IF a >= b THEN a ELSE b

Min(a, b) == IF a <= b THEN a ELSE b

Abs(a) == IF a >= 0 THEN a ELSE -a

\* The one element of a singleton set.  { e(x) : x \in {v} } evaluates v once
\* and names its value x, as a local variable does.
The(S) == CHOOSE x \in S : TRUE

\* A Python dict with no keys.
EmptyDict == [k \in {} |-> 0]

\* dict.get(key, default)
Get(d, key, default) == IF key \in DOMAIN d THEN d[key] ELSE default

----------------------------------------------------------------------------
(* core/image_enhancer.py : ImageEnhancer *)

\* An image is [W, H, lapStd, grayStd, mean, bits, tex, steps]:
\*   lapStd  = std of cv2.Laplacian(gray) (its variance is lapStd^2),
\*   grayStd = std(gray), mean = mean(gray), bits = 8 or 16 (dtype),
\*   tex     = which pixel content it has (decides the region statistics),
\*   steps   = the enhancement steps applied to it (<<>> for a raw image).
\* `fails` is the set of computations that raise on this call:
\*   "gray", "blur", "noise", "contrast", "brightness".

\* min(100, laplacian_var / 10), or 50 on failure; in tenths
_calculate_blur_score(image, fails) ==
    IF "blur" \in fails THEN 500 ELSE Min(1000, image.lapStd * image.lapStd)

\* the noise score without its max(0, ...)
_calculate_noise_score_unclamped(image, fails) ==
    IF "noise" \in fails THEN 500 ELSE 1000 - 5 * image.lapStd

\* max(0, 100 - noise_level / 2), or 50 on failure; in tenths
_calculate_noise_score(image, fails) ==
    IF "noise" \in fails THEN 500 ELSE Max(0, 1000 - 5 * image.lapStd)

\* min(100, contrast / 2), or 50 on failure; in tenths
_calculate_contrast_score(image, fails) ==
    IF "contrast" \in fails THEN 500 ELSE Min(1000, 5 * image.grayStd)

\* max(0, 100 - abs(mean - 125) / 2), or 50 on failure; in tenths
_calculate_brightness_score(image, fails) ==
    IF "brightness" \in fails THEN 500 ELSE Max(0, 1000 - 5 * Abs(image.mean - 125))

\* blur*0.3 + noise*0.25 + contrast*0.25 + brightness*0.2, in thousandths
WeightedSum(blur, noise, contrast, brightness) ==
    30 * blur + 25 * noise + 25 * contrast + 20 * brightness

\* assess_image_quality answering 50 whenever anything fails
assess_image_quality_neutral(image, fails) ==
    IF fails # {}
    THEN 50000
    ELSE Min(100000, Max(0, WeightedSum(_calculate_blur_score(image, fails),
                                        _calculate_noise_score(image, fails),
                                        _calculate_contrast_score(image, fails),
                                        _calculate_brightness_score(image, fails))))

\* The composite score in thousandths; 50 when the outer try block raises.
assess_image_quality(image, fails) ==
    IF "gray" \in fails
    THEN 50000
    ELSE Min(100000, Max(0, WeightedSum(_calculate_blur_score(image, fails),
                                        _calculate_noise_score(image, fails),
                                        _calculate_contrast_score(image, fails),
                                        _calculate_brightness_score(image, fails))))

\* the bands with each boundary in the lower band
EnhancementSteps_boundary_below(quality_score) ==
    IF quality_score <= 30000 THEN <<"contrast", "denoise", "deblur", "sharpen">>
    ELSE IF quality_score <= 50000 THEN <<"contrast", "denoise", "sharpen">>
    ELSE IF quality_score <= 70000 THEN <<"contrast">>
    ELSE <<>>

\* The steps enhance_image applies for a score (in thousandths), in order.
EnhancementSteps(quality_score) ==
    IF quality_score < 30000 THEN <<"contrast", "denoise", "deblur", "sharpen">>
    ELSE IF quality_score < 50000 THEN <<"contrast", "denoise", "sharpen">>
    ELSE IF quality_score < 70000 THEN <<"contrast">>
    ELSE <<>>

\* _enhance_contrast, _denoise_image, _deblur_image, _sharpen_image: each
\* returns a new picture, or the picture it was given when its OpenCV call
\* raises (step_fails holds the steps that raise)
EnhancementStep(step, image, step_fails) ==
    IF step \in step_fails THEN image
    ELSE [image EXCEPT !.steps = Append(@, step)]

\* enhanced = step(enhanced) for each step of the list in turn
RECURSIVE ApplySteps(_, _, _)
ApplySteps(image, steps, step_fails) ==
    IF steps = <<>> THEN image
    ELSE ApplySteps(EnhancementStep(Head(steps), image, step_fails),
                    Tail(steps), step_fails)

\* enhance_image when the steps of step_fails raise: [enhanced, image], the
\* picture returned and the caller's picture as the call leaves it.  The
\* method works on image.copy() and the helpers write to new arrays.
enhance_image_steps(image, quality_score, step_fails) ==
    [enhanced |-> ApplySteps(image, EnhancementSteps(quality_score), step_fails),
     image |-> image]

\* enhance_image works on a copy; the result has the same shape.
enhance_image(image, quality_score) ==
    enhance_image_steps(image, quality_score, {}).enhanced

----------------------------------------------------------------------------
(* core/hof_models.py : HallOfFacesModels *)

\* The registry part of the state, as one value: self.models,
\* self.current_model, self.opencv_cascade and the model file on disk
\* ("ok", "corrupt": YOLO() raises on it, "missing").
Registry == [models |-> models, current_model |-> current_model,
             opencv_cascade |-> opencv_cascade, model_file |-> model_file]

\* self.model_configs: the model types the registry knows
model_configs == {"yolov8n_face", "yolov8s_face", "yolov8m_face", "opencv_haar"}

\* model_path.exists(): download_models fetches yolov8n_face only
ModelPathExists(reg, model_type) ==
    model_type = "yolov8n_face" /\ reg.model_file # "missing"

\* load_model handing out None for a model that is already cached
load_model_cached_none(reg, model_type) ==
    IF model_type = "opencv_haar"
    THEN [handle |-> IF reg.opencv_cascade THEN "cascade" ELSE "None", reg |-> reg]
    ELSE IF model_type \in reg.models
    THEN [handle |-> "None", reg |-> reg]
    ELSE IF model_type \notin model_configs
    THEN [handle |-> "None", reg |-> reg]
    ELSE IF ~ModelPathExists(reg, model_type)
    THEN [handle |-> "None", reg |-> reg]
    ELSE IF reg.model_file = "ok"
    THEN [handle |-> "YOLO",
          reg |-> [reg EXCEPT !.models = @ \cup {model_type},
                              !.current_model = model_type]]
    ELSE [handle |-> "None", reg |-> reg]

\* load_model: the handle it returns ("cascade", "YOLO" or "None") and the
\* registry as it leaves it
load_model(reg, model_type) ==
    IF model_type = "opencv_haar"
    THEN [handle |-> IF reg.opencv_cascade THEN "cascade" ELSE "None", reg |-> reg]
    ELSE IF model_type \in reg.models
    THEN [handle |-> "YOLO", reg |-> reg]
    ELSE IF model_type \notin model_configs
    THEN [handle |-> "None", reg |-> reg]
    ELSE IF ~ModelPathExists(reg, model_type)
    THEN [handle |-> "None", reg |-> reg]
    ELSE IF reg.model_file = "ok"
    THEN [handle |-> "YOLO",
          reg |-> [reg EXCEPT !.models = @ \cup {model_type},
                              !.current_model = model_type]]
    ELSE [handle |-> "None", reg |-> reg]

\* Which picture a backend is shown: the raw image or an enhanced copy.
Variant(image) == IF image.steps = <<>> THEN "raw" ELSE "enh"

\* int(x) of a coordinate given in halves: truncation towards zero
ToInt(h) == IF h >= 0 THEN h \div 2 ELSE -((-h) \div 2)

\* A backend's answer is [raises, boxes]: the inference call raised, or it
\* returned `boxes`.  A YOLO box is [xyxy, conf]: four coordinates in halves
\* and a confidence in percent.  A Haar rectangle is <<x, y, w, h>>.

\* The test of line 180: 0.3 <= aspect_ratio <= 3.0 and width > 15 and height > 15
YoloBoxReasonable(box) ==
    LET width  == box.xyxy[3] - box.xyxy[1]
        height == box.xyxy[4] - box.xyxy[2]
    IN  /\ height > 0
        /\ 10 * width >= 3 * height
        /\ width <= 3 * height
        /\ width > 30
        /\ height > 30

YoloFace(box, model_type) ==
    [bbox |-> <<ToInt(box.xyxy[1]), ToInt(box.xyxy[2]),
                ToInt(box.xyxy[3]), ToInt(box.xyxy[4])>>,
     confidence |-> <<box.conf, 100>>,
     model_used |-> "YOLO_" \o model_type,
     strategy_quality |-> -1]

RECURSIVE YoloFaces(_, _)
YoloFaces(boxes, model_type) ==
    IF boxes = <<>> THEN <<>>
    ELSE (IF YoloBoxReasonable(Head(boxes))
          THEN <<YoloFace(Head(boxes), model_type)>> ELSE <<>>)
         \o YoloFaces(Tail(boxes), model_type)

\* _detect_with_yolo: [faces, reg]
_detect_with_yolo(reg, image, model_type, resp) ==
    LET r == resp.yolo[Variant(image)]
    IN  The({ IF ld.handle = "None" THEN [faces |-> <<>>, reg |-> ld.reg]
              ELSE IF r.raises THEN [faces |-> <<>>, reg |-> ld.reg]
              ELSE [faces |-> YoloFaces(r.boxes, model_type), reg |-> ld.reg] :
              ld \in {load_model(reg, model_type)} })

OpencvFace(rect) ==
    [bbox |-> <<rect[1], rect[2], rect[1] + rect[3], rect[2] + rect[4]>>,
     confidence |-> <<85, 100>>,
     model_used |-> "opencv_fallback",
     strategy_quality |-> -1]

\* _detect_with_opencv: the faces
_detect_with_opencv(reg, image, resp) ==
    LET r == resp.haar[Variant(image)]
    IN  IF ~reg.opencv_cascade THEN <<>>
        ELSE IF r.raises THEN <<>>
        ELSE [i \in 1..Len(r.boxes) |-> OpencvFace(r.boxes[i])]

\* detect_faces never reaching its fallback
FallbackConfigured_never(reg) == FALSE

\* `if self.opencv_cascade is not None` of detect_faces
FallbackConfigured(reg) == reg.opencv_cascade

\* detect_faces: [faces, reg]
detect_faces(reg, image, model_type, resp) ==
    The({ IF model_type # "opencv_haar" /\ y.faces # <<>>
          THEN y
          ELSE IF FallbackConfigured(y.reg)
          THEN [faces |-> _detect_with_opencv(y.reg, image, resp), reg |-> y.reg]
          ELSE [faces |-> <<>>, reg |-> y.reg] :
          y \in { IF model_type # "opencv_haar"
                  THEN _detect_with_yolo(reg, image, model_type, resp)
                  ELSE [faces |-> <<>>, reg |-> reg] } })

\* get_model_info()['primary_model'] and ['secondary_model']
primary_model == "yolov8n_face"

secondary_model == "yolov8n_face"

----------------------------------------------------------------------------
(* core/intelligent_face_detector.py : IntelligentFaceDetector *)

\* self.detection_strategies, in the dict's order; overlap_threshold in
\* tenths, quality_threshold in twentieths (20, 15, 10)
StrategyNames == <<"conservative", "balanced", "aggressive">>

detection_strategies ==
    [conservative |-> [overlap_threshold |-> 3, quality_threshold |-> 400],
     balanced     |-> [overlap_threshold |-> 4, quality_threshold |-> 300],
     aggressive   |-> [overlap_threshold |-> 5, quality_threshold |-> 200]]

\* A Python slice bound s of an axis of length n
SliceBound(s, n) == IF s < 0 THEN Max(0, s + n) ELSE Min(s, n)

\* image[y1:y2, x1:x2]: the rows and columns the slice selects
FaceRegion(bbox, image) ==
    [x1 |-> SliceBound(bbox[1], image.W), x2 |-> SliceBound(bbox[3], image.W),
     y1 |-> SliceBound(bbox[2], image.H), y2 |-> SliceBound(bbox[4], image.H)]

\* The pixel statistics of a region: [contrast |-> std(gray),
\* edge |-> edge pixels per thousand, mean |-> mean(gray)].  They depend on
\* the picture's content (tex) and on where the region lies.
RegionTable ==
    << [contrast |-> 2,  edge |-> 0, mean |-> 10],
       [contrast |-> 8,  edge |-> 0, mean |-> 20],
       [contrast |-> 13, edge |-> 0, mean |-> 20],
       [contrast |-> 0,  edge |-> 0, mean |-> 127],
       [contrast |-> 20, edge |-> 3, mean |-> 107],
       [contrast |-> 60, edge |-> 5, mean |-> 127] >>

\* A picture with tex beyond the table is overexposed: every region of it is
\* nearly white, with little contrast and no edges.
RegionStats(region, image) ==
    IF image.tex >= Len(RegionTable)
    THEN [contrast |-> 28, edge |-> 0, mean |-> 247]
    ELSE RegionTable[(((region.x1 + 2 * region.y1) \div 10 + image.tex)
                         % Len(RegionTable)) + 1]

\* _analyze_face_region_quality, in twentieths: 0 for an empty region, 25
\* when the analysis raises (cv2.Canny accepts 8-bit images only), else
\* min(50, contrast) + min(30, edge_density * 3000)
\*   + max(0, 20 - abs(mean - 127) * 0.15), clamped to [0, 100]
_analyze_face_region_quality(face, image) ==
    LET region == FaceRegion(face.bbox, image)
        st     == RegionStats(region, image)
        total  == 20 * Min(50, st.contrast) + 20 * Min(30, 3 * st.edge)
                  + Max(0, 400 - 3 * Abs(st.mean - 127))
    IN  IF region.x2 <= region.x1 \/ region.y2 <= region.y1 THEN 0
        ELSE IF image.bits # 8 THEN 500
        ELSE Max(0, Min(2000, total))

\* The reason _initial_quality_filter removes a face for, or "keep"
InitialFilterVerdict(face, image) ==
    LET x1 == face.bbox[1]
        y1 == face.bbox[2]
        x2 == face.bbox[3]
        y2 == face.bbox[4]
        face_width  == x2 - x1
        face_height == y2 - y1
    IN  IF x2 <= x1 \/ y2 <= y1 THEN "Invalid bounding box"
        ELSE IF face_width < 25 \/ face_height < 25 THEN "Too small (noise)"
        ELSE IF 10 * face_width * face_height > 6 * image.H * image.W
        THEN "Too large (likely false positive)"
        ELSE IF 10 * face_width < 3 * face_height \/ face_width > 3 * face_height
        THEN "Bad aspect ratio"
        ELSE "keep"

\* _initial_quality_filter: [faces, removed]
RECURSIVE _initial_quality_filter(_, _)
_initial_quality_filter(faces, image) ==
    IF faces = <<>> THEN [faces |-> <<>>, removed |-> <<>>]
    ELSE LET rest    == _initial_quality_filter(Tail(faces), image)
             verdict == InitialFilterVerdict(Head(faces), image)
         IN  IF verdict = "keep"
             THEN [faces |-> <<Head(faces)>> \o rest.faces, removed |-> rest.removed]
             ELSE [faces |-> rest.faces,
                   removed |-> <<[face |-> Head(faces), reason |-> verdict]>>
                               \o rest.removed]

\* _calculate_overlap_ratio: the IoU as <<numerator, denominator>>
_calculate_overlap_ratio(bbox1, bbox2) ==
    LET x1_int == Max(bbox1[1], bbox2[1])
        y1_int == Max(bbox1[2], bbox2[2])
        x2_int == Min(bbox1[3], bbox2[3])
        y2_int == Min(bbox1[4], bbox2[4])
        intersection == (x2_int - x1_int) * (y2_int - y1_int)
        area1 == (bbox1[3] - bbox1[1]) * (bbox1[4] - bbox1[2])
        area2 == (bbox2[3] - bbox2[1]) * (bbox2[4] - bbox2[2])
        union == area1 + area2 - intersection
    IN  IF x2_int <= x1_int \/ y2_int <= y1_int THEN <<0, 1>>
        ELSE IF union > 0 THEN <<intersection, union>>
        ELSE <<0, 1>>

\* overlap_ratio > overlap_threshold (the threshold in tenths)
OverlapExceeds(bbox1, bbox2, overlap_threshold) ==
    LET r == _calculate_overlap_ratio(bbox1, bbox2)
    IN  10 * r[1] > overlap_threshold * r[2]

\* the sort key being the confidence alone
SortKey_confidence(f) == 40 * f.confidence[1]

\* The sort key strategy_quality * 0.6 + confidence * 0.4, times
\* 100 * (the confidence's denominator)
SortKey(f) ==
    3 * (IF f.strategy_quality < 0 THEN 0 ELSE f.strategy_quality) * f.confidence[2]
    + 40 * f.confidence[1]

KeyLess(a, b) == SortKey(a) * b.confidence[2] < SortKey(b) * a.confidence[2]

\* sorted(faces, key, reverse=True): stable, so equal keys keep their order
RECURSIVE InsertByKey(_, _)
InsertByKey(f, sorted) ==
    IF sorted = <<>> THEN <<f>>
    ELSE IF KeyLess(Head(sorted), f) THEN <<f>> \o sorted
    ELSE <<Head(sorted)>> \o InsertByKey(f, Tail(sorted))

RECURSIVE SortedByKey(_)
SortedByKey(faces) ==
    IF faces = <<>> THEN <<>>
    ELSE InsertByKey(faces[Len(faces)], SortedByKey(SubSeq(faces, 1, Len(faces) - 1)))

\* The loop of _remove_overlapping_faces over the sorted faces
RECURSIVE KeepNonOverlapping(_, _, _)
KeepNonOverlapping(sorted_faces, kept_faces, overlap_threshold) ==
    IF sorted_faces = <<>> THEN kept_faces
    ELSE LET face == Head(sorted_faces)
             overlaps == \E i \in 1..Len(kept_faces) :
                            OverlapExceeds(face.bbox, kept_faces[i].bbox, overlap_threshold)
         IN  KeepNonOverlapping(Tail(sorted_faces),
                                IF overlaps THEN kept_faces ELSE Append(kept_faces, face),
                                overlap_threshold)

\* the loop comparing a face with the last kept face only
RECURSIVE KeepNonOverlapping_last(_, _, _)
KeepNonOverlapping_last(sorted_faces, kept_faces, overlap_threshold) ==
    IF sorted_faces = <<>> THEN kept_faces
    ELSE LET face == Head(sorted_faces)
             overlaps == /\ kept_faces # <<>>
                         /\ OverlapExceeds(face.bbox, kept_faces[Len(kept_faces)].bbox,
                                           overlap_threshold)
         IN  KeepNonOverlapping_last(Tail(sorted_faces),
                                IF overlaps THEN kept_faces ELSE Append(kept_faces, face),
                                overlap_threshold)

\* _remove_overlapping_faces with that loop
_remove_overlapping_faces_last(faces, overlap_threshold) ==
    IF Len(faces) <= 1 THEN faces
    ELSE KeepNonOverlapping_last(SortedByKey(faces), <<>>, overlap_threshold)

\* no overlap resolution at all
_remove_overlapping_faces_none(faces, overlap_threshold) == faces

\* _remove_overlapping_faces: a sorted face is kept unless its IoU with a
\* face kept before it exceeds the threshold
_remove_overlapping_faces(faces, overlap_threshold) ==
    IF Len(faces) <= 1 THEN faces
    ELSE KeepNonOverlapping(SortedByKey(faces), <<>>, overlap_threshold)

\* Integer square root (floor), by bisection
RECURSIVE ISqrtIn(_, _, _)
ISqrtIn(v, lo, hi) ==
    IF lo >= hi THEN lo
    ELSE LET mid == (lo + hi + 1) \div 2
         IN  IF mid * mid <= v THEN ISqrtIn(v, mid, hi) ELSE ISqrtIn(v, lo, mid - 1)

ISqrt(v) == ISqrtIn(v, 0, 2048)

RECURSIVE SumSeq(_)
SumSeq(q) == IF q = <<>> THEN 0 ELSE Head(q) + SumSeq(Tail(q))

\* the strategy test with the metrics taken over the strategy's survivors
_test_detection_strategy_survivors(faces, image, params) ==
    LET scored == [i \in 1..Len(faces) |->
                      [faces[i] EXCEPT !.strategy_quality =
                           _analyze_face_region_quality(faces[i], image)]]
        Passes(f) == f.strategy_quality >= params.quality_threshold
        non_overlapping == _remove_overlapping_faces(SelectSeq(scored, Passes),
                                                     params.overlap_threshold)
        face_qualities == [i \in 1..Len(non_overlapping) |->
                              non_overlapping[i].strategy_quality]
        n     == Len(face_qualities)
        total == SumSeq(face_qualities)
        sumsq == SumSeq([i \in 1..n |-> face_qualities[i] * face_qualities[i]])
        quality_std == IF n > 1 THEN ISqrt((n * sumsq - total * total) \div (n * n)) ELSE 0
    IN  [faces |-> non_overlapping,
         avg_quality |-> IF n > 0 THEN <<total, n>> ELSE <<0, 1>>,
         consistency_score |-> IF n > 0 THEN (total \div n) - quality_std ELSE 0,
         quality_distribution |-> face_qualities]

\* _test_detection_strategy: [faces, avg_quality, consistency_score,
\* quality_distribution].  avg_quality is the exact fraction <<sum, n>> of
\* twentieths; consistency_score = avg_quality - np.std(face_qualities) is
\* rounded down to whole twentieths.  Every face handed in gets its
\* strategy_quality key set, also the ones the strategy then drops.
_test_detection_strategy(faces, image, params) ==
    LET face_qualities == [i \in 1..Len(faces) |->
                              _analyze_face_region_quality(faces[i], image)]
        scored == [i \in 1..Len(faces) |->
                      [faces[i] EXCEPT !.strategy_quality = face_qualities[i]]]
        Passes(f) == f.strategy_quality >= params.quality_threshold
        quality_filtered == SelectSeq(scored, Passes)
        non_overlapping == _remove_overlapping_faces(quality_filtered,
                                                     params.overlap_threshold)
        n     == Len(face_qualities)
        total == SumSeq(face_qualities)
        sumsq == SumSeq([i \in 1..n |-> face_qualities[i] * face_qualities[i]])
        quality_std == IF n > 1 THEN ISqrt((n * sumsq - total * total) \div (n * n)) ELSE 0
    IN  [faces |-> non_overlapping,
         avg_quality |-> IF n > 0 THEN <<total, n>> ELSE <<0, 1>>,
         consistency_score |-> IF n > 0 THEN (total \div n) - quality_std ELSE 0,
         quality_distribution |-> face_qualities]

\* the portrait rule with its bounds included
_analyze_image_context_closed(image, faces) ==
    IF 10 * image.W >= 7 * image.H /\ 10 * image.W <= 13 * image.H /\ Len(faces) <= 2
    THEN "portrait"
    ELSE IF 10 * image.W > 13 * image.H /\ Len(faces) >= 3 THEN "group"
    ELSE IF image.H * image.W > 1000000 /\ Len(faces) >= 5 THEN "classroom"
    ELSE IF Len(faces) = 2 THEN "pair"
    ELSE "general"

\* _analyze_image_context: the likely_scenario
_analyze_image_context(image, faces) ==
    IF 10 * image.W > 7 * image.H /\ 10 * image.W < 13 * image.H /\ Len(faces) <= 2
    THEN "portrait"
    ELSE IF 10 * image.W > 13 * image.H /\ Len(faces) >= 3 THEN "group"
    ELSE IF image.H * image.W > 1000000 /\ Len(faces) >= 5 THEN "classroom"
    ELSE IF Len(faces) = 2 THEN "pair"
    ELSE "general"

\* the score without the over-detection penalty
StrategyScore_no_penalty(result, likely_scenario, image) ==
    2 * result.consistency_score
    + (IF likely_scenario = "portrait" /\ Len(result.faces) = 1 THEN 3000
       ELSE IF likely_scenario = "group" /\ Len(result.faces) >= 2 THEN 2000
       ELSE IF likely_scenario = "classroom" /\ Len(result.faces) >= 3 THEN 2500
       ELSE 0)
    + (IF result.avg_quality[1] > 1200 * result.avg_quality[2] THEN 1000
       ELSE IF result.avg_quality[1] > 800 * result.avg_quality[2] THEN 500
       ELSE 0)

\* The score _choose_optimal_strategy gives one strategy's result, in hundredths
StrategyScore(result, likely_scenario, image) ==
    LET faces_count == Len(result.faces)
        expected_max_faces == Max(1, (image.H * image.W) \div 50000)
    IN  2 * result.consistency_score
        + (IF likely_scenario = "portrait" /\ faces_count = 1 THEN 3000
           ELSE IF likely_scenario = "group" /\ faces_count >= 2 THEN 2000
           ELSE IF likely_scenario = "classroom" /\ faces_count >= 3 THEN 2500
           ELSE 0)
        - (IF faces_count > expected_max_faces * 2 THEN 1500 ELSE 0)
        + (IF result.avg_quality[1] > 1200 * result.avg_quality[2] THEN 1000
           ELSE IF result.avg_quality[1] > 800 * result.avg_quality[2] THEN 500
           ELSE 0)

\* the last key with the highest score
BestStrategy_last(strategy_scores) ==
    IF /\ strategy_scores.aggressive >= strategy_scores.balanced
       /\ strategy_scores.aggressive >= strategy_scores.conservative
    THEN "aggressive"
    ELSE IF strategy_scores.balanced >= strategy_scores.conservative THEN "balanced"
    ELSE "conservative"

\* max(strategy_scores.keys(), key=...): the first key with the highest score
BestStrategy(strategy_scores) ==
    IF /\ strategy_scores.conservative >= strategy_scores.balanced
       /\ strategy_scores.conservative >= strategy_scores.aggressive
    THEN "conservative"
    ELSE IF strategy_scores.balanced >= strategy_scores.aggressive THEN "balanced"
    ELSE "aggressive"

\* _choose_optimal_strategy: [best_strategy, faces, image_context, strategy_scores]
_choose_optimal_strategy(strategy_results, image, original_faces) ==
    LET likely_scenario == _analyze_image_context(image, original_faces)
        strategy_scores == [s \in DOMAIN strategy_results |->
                               StrategyScore(strategy_results[s], likely_scenario, image)]
        best_strategy == BestStrategy(strategy_scores)
    IN  [best_strategy |-> best_strategy,
         faces |-> strategy_results[best_strategy].faces,
         image_context |-> [likely_scenario |-> likely_scenario],
         strategy_scores |-> strategy_scores]

RECURSIVE Gcd(_, _)
Gcd(a, b) == IF b = 0 THEN a ELSE Gcd(b, a % b)

\* A fraction in lowest terms
Frac(num, den) == <<num \div Gcd(num, den), den \div Gcd(num, den)>>

MaxSeq(q) == CHOOSE m \in {q[i] : i \in DOMAIN q} : \A i \in DOMAIN q : q[i] <= m

\* every confidence becomes min(0.99, confidence), whatever the quality
_adjust_final_confidence_unscaled(faces, image) ==
    IF Len(faces) <= 1 THEN faces
    ELSE [i \in 1..Len(faces) |->
             [faces[i] EXCEPT !.confidence =
                 IF 100 * @[1] > 99 * @[2] THEN <<99, 100>> ELSE Frac(@[1], @[2])]]

\* _adjust_final_confidence: with more than one face, each confidence becomes
\* min(0.99, confidence * (0.5 + 0.5 * strategy_quality / max_quality))
_adjust_final_confidence(faces, image) ==
    IF Len(faces) <= 1 THEN faces
    ELSE LET Quality(f) == IF f.strategy_quality < 0 THEN 1000 ELSE f.strategy_quality
             max_quality == MaxSeq([i \in 1..Len(faces) |-> Quality(faces[i])])
             Adjusted(f) ==
                 IF max_quality > 0
                 THEN Frac(f.confidence[1] * (max_quality + Quality(f)),
                           f.confidence[2] * 2 * max_quality)
                 ELSE Frac(f.confidence[1], f.confidence[2])
             Capped(c) == IF 100 * c[1] > 99 * c[2] THEN <<99, 100>> ELSE c
         IN  [i \in 1..Len(faces) |->
                 [faces[i] EXCEPT !.confidence = Capped(Adjusted(faces[i]))]]

\* detect_optimal_faces(raw_faces, image, return_debug_info=True):
\* [faces, debug_info]
detect_optimal_faces(raw_faces, image) ==
    IF raw_faces = <<>> THEN [faces |-> raw_faces, debug_info |-> EmptyDict]
    ELSE
    The({ The({ The({ The({
        [faces |-> final_faces,
         debug_info |->
            [original_count |-> Len(raw_faces),
             strategies_tested |->
                [s \in DOMAIN strategy_results |->
                    [faces_found |-> Len(strategy_results[s].faces),
                     avg_quality |-> strategy_results[s].avg_quality,
                     consistency_score |-> strategy_results[s].consistency_score]],
             strategy_scores |-> chosen.strategy_scores,   \* the analysis_steps lines
             image_context |-> chosen.image_context,
             removed_faces |-> initial.removed,
             final_strategy |-> chosen.best_strategy,
             final_count |-> Len(final_faces)]] :
        final_faces \in {_adjust_final_confidence(chosen.faces, image)} }) :
        chosen \in {_choose_optimal_strategy(strategy_results, image, initial.faces)} }) :
        strategy_results \in
            { [s \in {StrategyNames[i] : i \in 1..3} |->
                 _test_detection_strategy(initial.faces, image,
                                          detection_strategies[s])] } }) :
        initial \in {_initial_quality_filter(raw_faces, image)} })

----------------------------------------------------------------------------
(* core/adaptive_detector.py : AdaptiveFaceDetector *)

\* self.quality_thresholds, in thousandths
excellent == 85000

good == 60000

acceptable == 30000

\* The list `methods` of _progressive_yolo_detection
ProgressiveMethods(image, quality_score) ==
    << [model_type |-> primary_model,   img |-> image],
       [model_type |-> secondary_model, img |-> image],
       [model_type |-> secondary_model, img |-> enhance_image(image, quality_score)],
       [model_type |-> "opencv_haar",   img |-> image] >>

\* the loop without its break: every method is tried, the largest result kept
ProgressiveBreaks_never(n, best_count) == FALSE

\* `if len(faces) > 0: break` inside `if len(faces) > best_count`
ProgressiveBreaks(n, best_count) == n > best_count /\ n > 0

\* the loop without its except clause
ProgressiveCatches_nothing(exc) == FALSE

\* `except Exception`: what the loop's handler catches
ProgressiveCatches(exc) == exc = "Exception"

\* The loop of _progressive_yolo_detection from method i on.  raise_at is the
\* method (0: none) whose detect_faces call raises an Exception.  `attempts`
\* records, per method tried, the number of faces it returned (-1: it raised).
\* Result: [faces, reg, attempts, raised].
RECURSIVE ProgressiveLoop(_, _, _, _, _, _, _)
ProgressiveLoop(i, methods, best_faces, best_count, reg, attempts, in) ==
    IF i > Len(methods)
    THEN [faces |-> best_faces, reg |-> reg, attempts |-> attempts, raised |-> FALSE]
    ELSE IF in.raise_at = i
    THEN IF ProgressiveCatches("Exception")
         THEN ProgressiveLoop(i + 1, methods, best_faces, best_count, reg,
                              Append(attempts, -1), in)
         ELSE [faces |-> <<>>, reg |-> reg, attempts |-> Append(attempts, -1),
               raised |-> TRUE]
    ELSE The({ IF ProgressiveBreaks(Len(d.faces), best_count)
               THEN [faces |-> d.faces, reg |-> d.reg,
                     attempts |-> Append(attempts, Len(d.faces)), raised |-> FALSE]
               ELSE IF Len(d.faces) > best_count
               THEN ProgressiveLoop(i + 1, methods, d.faces, Len(d.faces), d.reg,
                                    Append(attempts, Len(d.faces)), in)
               ELSE ProgressiveLoop(i + 1, methods, best_faces, best_count, d.reg,
                                    Append(attempts, Len(d.faces)), in) :
               d \in {detect_faces(reg, methods[i].img, methods[i].model_type, in.resp)} })

\* _progressive_yolo_detection: [faces, reg, attempts, raised]
_progressive_yolo_detection(reg, image, quality_score, in) ==
    ProgressiveLoop(1, ProgressiveMethods(image, quality_score), <<>>, 0, reg, <<>>, in)

\* the tier with > in place of >=
TierOf_shifted(quality_score) ==
    IF quality_score > excellent THEN 1
    ELSE IF quality_score > good THEN 2
    ELSE IF quality_score > acceptable THEN 3
    ELSE 4

\* The branch of _select_yolo_tier a score takes: 1 fast, 2 accurate,
\* 3 enhanced, 4 progressive
TierOf(quality_score) ==
    IF quality_score >= excellent THEN 1
    ELSE IF quality_score >= good THEN 2
    ELSE IF quality_score >= acceptable THEN 3
    ELSE 4

\* _select_yolo_tier: [tier_used, faces, reg, attempts, raised, shown], where
\* `shown` lists the pictures handed to detect_faces
_select_yolo_tier(reg, image, quality_score, in) ==
    LET tier == TierOf(quality_score)
        enhanced_image == enhance_image(image, quality_score)
        methods == ProgressiveMethods(image, quality_score)
    IN  IF tier = 1
        THEN The({ [tier_used |-> "tier_1_yolo_fast_" \o primary_model,
                    faces |-> d.faces, reg |-> d.reg, attempts |-> <<Len(d.faces)>>,
                    raised |-> FALSE, shown |-> <<image>>] :
                   d \in {detect_faces(reg, image, primary_model, in.resp)} })
        ELSE IF tier = 2
        THEN The({ [tier_used |-> "tier_2_yolo_accurate_" \o secondary_model,
                    faces |-> d.faces, reg |-> d.reg, attempts |-> <<Len(d.faces)>>,
                    raised |-> FALSE, shown |-> <<image>>] :
                   d \in {detect_faces(reg, image, secondary_model, in.resp)} })
        ELSE IF tier = 3
        THEN The({ [tier_used |-> "tier_3_enhanced_yolo_" \o secondary_model,
                    faces |-> d.faces, reg |-> d.reg, attempts |-> <<Len(d.faces)>>,
                    raised |-> FALSE, shown |-> <<enhanced_image>>] :
                   d \in {detect_faces(reg, enhanced_image, secondary_model, in.resp)} })
        ELSE The({ [tier_used |-> "tier_4_progressive_yolo_fallback",
                    faces |-> p.faces, reg |-> p.reg, attempts |-> p.attempts,
                    raised |-> p.raised,
                    shown |-> [i \in 1..Len(p.attempts) |-> methods[i].img]] :
                   p \in {_progressive_yolo_detection(reg, image, quality_score, in)} })

\* _determine_scenario taking no face for a single person
_determine_scenario_off(faces) ==
    LET face_count == Len(faces)
    IN  IF face_count <= 1 THEN "single_person"
        ELSE IF face_count = 2 THEN "pair"
        ELSE IF face_count <= 5 THEN "small_group"
        ELSE IF face_count <= 15 THEN "large_group"
        ELSE "crowd"

\* _determine_scenario
_determine_scenario(faces) ==
    LET face_count == Len(faces)
    IN  IF face_count = 0 THEN "no_faces"
        ELSE IF face_count = 1 THEN "single_person"
        ELSE IF face_count = 2 THEN "pair"
        ELSE IF face_count <= 5 THEN "small_group"
        ELSE IF face_count <= 15 THEN "large_group"
        ELSE "crowd"

\* detect_faces_adaptive(image_path_or_array, return_metrics=True).
\* in = [src, image, fails, resp, raise_at, elapsed]: src is "array" or, for
\* a path cv2.imread cannot read, "bad_path"; elapsed is what the clock gives
\* for time.time() - start_time, in hundredths of a second.
\* Result: [faces, metrics, reg, raised].
detect_faces_adaptive(reg, in) ==
    IF in.src = "bad_path"
    THEN [faces |-> <<>>, metrics |-> EmptyDict, reg |-> reg, raised |-> FALSE]
    ELSE
    LET quality_score == assess_image_quality(in.image, in.fails)
    IN  The({ IF t.raised
              THEN [faces |-> <<>>, metrics |-> EmptyDict, reg |-> t.reg, raised |-> TRUE]
              ELSE The({ [faces |-> o.faces,
                          metrics |->
                             [quality_score |-> quality_score,
                              tier_used |-> t.tier_used,
                              processing_time |-> in.elapsed,
                              raw_detections |-> Len(t.faces),
                              faces_detected |-> Len(o.faces),
                              detection_scenario |-> _determine_scenario(o.faces),
                              intelligent_debug |-> o.debug_info,
                              strategy_used |->
                                  Get(o.debug_info, "final_strategy", "unknown"),
                              attempts |-> t.attempts,
                              shown |-> t.shown],
                          reg |-> t.reg,
                          raised |-> FALSE] :
                         o \in {detect_optimal_faces(t.faces, in.image)} }) :
              t \in {_select_yolo_tier(reg, in.image, quality_score, in)} })

----------------------------------------------------------------------------
(* core/smart_face_filter.py : SmartFaceFilter *)

\* A face of the smart filter is [bbox, confidence, model_used,
\* region_quality, edge_detection]: region_quality in tenths (-1: the key is
\* absent), edge_detection FALSE while the key is absent.  A removal record
\* is [face, reason].

\* A confidence <<num, den>> whose den divides 10^6, in millionths
Millionths(c) == c[1] * (1000000 \div c[2])

\* The test of _filter_by_size, with min_size = min(30, min(W, H) * 0.02) and
\* max_size = min(W, H) * 0.8 taken times 100
SizeFilterRemoves(face, image) ==
    LET face_width  == face.bbox[3] - face.bbox[1]
        face_height == face.bbox[4] - face.bbox[2]
        face_area   == face_width * face_height
        image_area  == image.H * image.W
        min_size    == Min(3000, 2 * Min(image.W, image.H))
        max_size    == 80 * Min(image.W, image.H)
    IN  \/ 100 * face_width < min_size
        \/ 100 * face_height < min_size
        \/ 100 * face_width > max_size
        \/ 100 * face_height > max_size
        \/ 4 * face_area > image_area

\* _filter_by_size: [faces, removed]
_filter_by_size(faces, image) ==
    LET Kept(f) == ~SizeFilterRemoves(f, image)
        Gone(f) == SizeFilterRemoves(f, image)
        gone    == SelectSeq(faces, Gone)
    IN  [faces |-> SelectSeq(faces, Kept),
         removed |-> [i \in 1..Len(gone) |-> [face |-> gone[i], reason |-> "Size"]]]

\* 0.6 <= aspect_ratio <= 1.4, the ratio being 0 when the height is not positive
AspectRatioKeeps(face) ==
    LET width  == face.bbox[3] - face.bbox[1]
        height == face.bbox[4] - face.bbox[2]
    IN  IF height > 0 THEN 10 * width >= 6 * height /\ 10 * width <= 14 * height
        ELSE FALSE

\* _filter_by_aspect_ratio: [faces, removed]
_filter_by_aspect_ratio(faces) ==
    LET Gone(f) == ~AspectRatioKeeps(f)
        gone    == SelectSeq(faces, Gone)
    IN  [faces |-> SelectSeq(faces, AspectRatioKeeps),
         removed |-> [i \in 1..Len(gone) |->
                         [face |-> gone[i], reason |-> "Aspect ratio"]]]

\* edge_margin = min(20, min(width, height) * 0.05), times 100
EdgeMargin(image) == Min(2000, 5 * Min(image.W, image.H))

\* too_close_to_edge of _filter_by_position
TooCloseToEdge(face, image) ==
    \/ 100 * face.bbox[1] < EdgeMargin(image)
    \/ 100 * face.bbox[2] < EdgeMargin(image)
    \/ 100 * face.bbox[3] > 100 * image.W - EdgeMargin(image)
    \/ 100 * face.bbox[4] > 100 * image.H - EdgeMargin(image)

\* _filter_by_position: [faces, removed]; a face too close to an edge gets
\* confidence *= 0.3 and edge_detection = True, and every face is kept
_filter_by_position(faces, image) ==
    [faces |-> [i \in 1..Len(faces) |->
                   IF TooCloseToEdge(faces[i], image)
                   THEN [faces[i] EXCEPT
                             !.confidence = Frac(3 * @[1], 10 * @[2]),
                             !.edge_detection = TRUE]
                   ELSE faces[i]],
     removed |-> <<>>]

\* SmartFaceFilter._analyze_face_region_quality, in tenths:
\* min(100, contrast * 2) * 0.4 + min(100, edge_density * 1000) * 0.4
\*   + (100 - abs(mean - 127)) * 0.2, clamped to [0, 100]; 50 when the analysis
\* raises (cv2.Canny accepts 8-bit images only)
sff_analyze_face_region_quality(region, image) ==
    LET st               == RegionStats(region, image)
        contrast_score   == Min(100, 2 * st.contrast)
        edge_score       == Min(100, st.edge)
        brightness_score == 100 - Abs(st.mean - 127)
        quality_score    == 4 * contrast_score + 4 * edge_score + 2 * brightness_score
    IN  IF image.bits # 8 THEN 500
        ELSE Max(0, Min(1000, quality_score))

\* What _filter_by_face_quality does to one face: the face as it leaves it
\* and the reason it is removed for ("keep" when it is kept)
FaceQualityVerdict(face, image) ==
    LET region == FaceRegion(face.bbox, image)
    IN  IF region.x2 <= region.x1 \/ region.y2 <= region.y1
        THEN [face |-> face, reason |-> "Empty face region"]
        ELSE The({ [face |-> [face EXCEPT
                                 !.region_quality = quality_score,
                                 !.confidence = Frac(@[1] * quality_score, @[2] * 1000)],
                    reason |-> IF quality_score > 200 THEN "keep"
                               ELSE "Poor region quality"] :
                   quality_score \in {sff_analyze_face_region_quality(region, image)} })

\* _filter_by_face_quality: [faces, removed]
_filter_by_face_quality(faces, image) ==
    LET verdicts == [i \in 1..Len(faces) |-> FaceQualityVerdict(faces[i], image)]
        Kept(v)  == v.reason = "keep"
        Gone(v)  == v.reason # "keep"
        kept     == SelectSeq(verdicts, Kept)
    IN  [faces |-> [i \in 1..Len(kept) |-> kept[i].face],
         removed |-> SelectSeq(verdicts, Gone)]

\* SmartFaceFilter._calculate_overlap: the IoU as <<numerator, denominator>>
_calculate_overlap(bbox1, bbox2) ==
    LET x1_int == Max(bbox1[1], bbox2[1])
        y1_int == Max(bbox1[2], bbox2[2])
        x2_int == Min(bbox1[3], bbox2[3])
        y2_int == Min(bbox1[4], bbox2[4])
        intersection == (x2_int - x1_int) * (y2_int - y1_int)
        area1 == (bbox1[3] - bbox1[1]) * (bbox1[4] - bbox1[2])
        area2 == (bbox2[3] - bbox2[1]) * (bbox2[4] - bbox2[2])
        union == area1 + area2 - intersection
    IN  IF x2_int <= x1_int \/ y2_int <= y1_int THEN <<0, 1>>
        ELSE IF union > 0 THEN <<intersection, union>>
        ELSE <<0, 1>>

\* sorted(faces, key=lambda f: f['confidence'], reverse=True): stable
RECURSIVE InsertByConfidence(_, _)
InsertByConfidence(f, sorted) ==
    IF sorted = <<>> THEN <<f>>
    ELSE IF Millionths(Head(sorted).confidence) < Millionths(f.confidence)
    THEN <<f>> \o sorted
    ELSE <<Head(sorted)>> \o InsertByConfidence(f, Tail(sorted))

RECURSIVE SortedByConfidence(_)
SortedByConfidence(faces) ==
    IF faces = <<>> THEN <<>>
    ELSE InsertByConfidence(faces[Len(faces)],
                            SortedByConfidence(SubSeq(faces, 1, Len(faces) - 1)))

\* The loop of _filter_overlapping_faces over the sorted faces:
\* a face whose IoU with an accepted face is above 0.3 is removed
RECURSIVE FilterOverlappingLoop(_, _, _)
FilterOverlappingLoop(sorted_faces, filtered_faces, removed_faces) ==
    IF sorted_faces = <<>> THEN [faces |-> filtered_faces, removed |-> removed_faces]
    ELSE LET face == Head(sorted_faces)
             overlaps == \E i \in 1..Len(filtered_faces) :
                            LET r == _calculate_overlap(face.bbox, filtered_faces[i].bbox)
                            IN  10 * r[1] > 3 * r[2]
         IN  IF overlaps
             THEN FilterOverlappingLoop(Tail(sorted_faces), filtered_faces,
                      Append(removed_faces,
                             [face |-> face,
                              reason |-> "Overlaps with higher confidence face"]))
             ELSE FilterOverlappingLoop(Tail(sorted_faces),
                                        Append(filtered_faces, face), removed_faces)

\* _filter_overlapping_faces: [faces, removed]
_filter_overlapping_faces(faces) ==
    IF Len(faces) <= 1 THEN [faces |-> faces, removed |-> <<>>]
    ELSE FilterOverlappingLoop(SortedByConfidence(faces), <<>>, <<>>)

\* the ranking without the limit
_rank_and_limit_faces_all(faces, max_faces) == SortedByConfidence(faces)

\* _rank_and_limit_faces: sorted_faces[:max_faces]
_rank_and_limit_faces(faces, max_faces) ==
    SubSeq(SortedByConfidence(faces), 1, Min(max_faces, Len(faces)))

\* filter_faces(faces, image, return_debug_info=True):
\* [faces, paired, debug_info, stages].  paired tells whether the method
\* returned the pair (faces, debug_info) or, as for an empty list, the list
\* alone.  `stages` keeps what each stage was given and what it returned, in
\* the order the stages run.
filter_faces(faces, image) ==
    IF faces = <<>>
    THEN [faces |-> faces, paired |-> FALSE, debug_info |-> EmptyDict, stages |-> <<>>]
    ELSE
    The({ The({ The({ The({ The({ The({
        [faces |-> ranked,
         paired |-> TRUE,
         debug_info |->
            [original_count |-> Len(faces),
             filters_applied |-> <<Len(size.removed), Len(aspect.removed),
                                   Len(position.removed), Len(quality.removed),
                                   Len(overlap.removed), Len(ranked)>>,
             removed_faces |-> size.removed \o aspect.removed \o position.removed
                               \o quality.removed \o overlap.removed,
             final_count |-> Len(ranked)],
         stages |->
            << [stage |-> "size",     input |-> faces,          output |-> size.faces],
               [stage |-> "aspect",   input |-> size.faces,     output |-> aspect.faces],
               [stage |-> "position", input |-> aspect.faces,   output |-> position.faces],
               [stage |-> "quality",  input |-> position.faces, output |-> quality.faces],
               [stage |-> "overlap",  input |-> quality.faces,  output |-> overlap.faces],
               [stage |-> "rank",     input |-> overlap.faces,  output |-> ranked] >>] :
        ranked \in {_rank_and_limit_faces(overlap.faces, 3)} }) :
        overlap \in {_filter_overlapping_faces(quality.faces)} }) :
        quality \in {_filter_by_face_quality(position.faces, image)} }) :
        position \in {_filter_by_position(aspect.faces, image)} }) :
        aspect \in {_filter_by_aspect_ratio(size.faces)} }) :
        size \in {_filter_by_size(faces, image)} })

----------------------------------------------------------------------------
(* core/single_person_optimizer.py : SinglePersonOptimizer *)

\* A face of the optimizer is [bbox, confidence, model_used, region_quality]:
\* region_quality in tenths, -1 when the key is absent.  Scores are in
\* thousandths of a point.

\* face.get('region_quality', default), in tenths
RegionQualityOr(face, default) ==
    IF face.region_quality < 0 THEN default ELSE face.region_quality

\* _get_face_area
_get_face_area(face) ==
    (face.bbox[3] - face.bbox[1]) * (face.bbox[4] - face.bbox[2])

\* center_distance of _calculate_single_person_score, in thousandths: the
\* two relative offsets are taken in thousandths, the root is rounded down
CenterDistance(face, image) ==
    LET dx == (1000 * Abs(face.bbox[1] + face.bbox[3] - image.W)) \div (2 * image.W)
        dy == (1000 * Abs(face.bbox[2] + face.bbox[4] - image.H)) \div (2 * image.H)
    IN  ISqrt(dx * dx + dy * dy)

\* _calculate_single_person_score
_calculate_single_person_score(face, image) ==
    LET region_quality == RegionQualityOr(face, 500)
        face_area   == _get_face_area(face)
        image_area  == image.H * image.W
        face_width  == face.bbox[3] - face.bbox[1]
        face_height == face.bbox[4] - face.bbox[2]
        quality_part    == Min(40000, 40 * region_quality)
        confidence_part == (20000 * face.confidence[1]) \div face.confidence[2]
        size_part ==
            IF 100 * face_area >= 5 * image_area /\ 100 * face_area <= 30 * image_area
            THEN 20000
            ELSE IF 100 * face_area >= 3 * image_area
                    /\ 100 * face_area <= 50 * image_area
            THEN 15000
            ELSE IF 100 * face_area > 50 * image_area THEN 5000
            ELSE 2000
        position_score == Max(0, 10000 - 20 * CenterDistance(face, image))
        aspect_part ==
            IF face_height <= 0 THEN 2000
            ELSE IF 10 * face_width >= 8 * face_height
                    /\ 10 * face_width <= 12 * face_height
            THEN 10000
            ELSE IF 10 * face_width >= 6 * face_height
                    /\ 10 * face_width <= 14 * face_height
            THEN 7000
            ELSE 2000
    IN  quality_part + confidence_part + size_part + position_score + aspect_part

\* scored_faces.sort(key=lambda x: x[0], reverse=True): stable
RECURSIVE InsertByScore(_, _)
InsertByScore(p, sorted) ==
    IF sorted = <<>> THEN <<p>>
    ELSE IF Head(sorted).score < p.score THEN <<p>> \o sorted
    ELSE <<Head(sorted)>> \o InsertByScore(p, Tail(sorted))

RECURSIVE SortedByScore(_)
SortedByScore(pairs) ==
    IF pairs = <<>> THEN <<>>
    ELSE InsertByScore(pairs[Len(pairs)],
                       SortedByScore(SubSeq(pairs, 1, Len(pairs) - 1)))

\* the acceptance test with > in place of >=
MeetsMinimumCriteria_strict(best_score, best_face) ==
    /\ best_score > 60000
    /\ RegionQualityOr(best_face, 0) > 400
    /\ 10 * best_face.confidence[1] > 2 * best_face.confidence[2]

\* best_score >= min_score and region_quality >= min_quality
\* and confidence >= min_confidence
MeetsMinimumCriteria(best_score, best_face) ==
    /\ best_score >= 60000
    /\ RegionQualityOr(best_face, 0) >= 400
    /\ 10 * best_face.confidence[1] >= 2 * best_face.confidence[2]

\* the selection preferring a second face of exactly 1.5 times the area too
_select_best_single_face_inclusive(scored_faces, image) ==
    IF scored_faces = <<>> THEN <<>>
    ELSE IF ~MeetsMinimumCriteria(scored_faces[1].score, scored_faces[1].face)
    THEN <<>>
    ELSE IF /\ Len(scored_faces) > 1
            /\ scored_faces[1].score - scored_faces[2].score < 15000
            /\ 2 * _get_face_area(scored_faces[2].face)
                   >= 3 * _get_face_area(scored_faces[1].face)
    THEN <<scored_faces[2].face>>
    ELSE <<scored_faces[1].face>>

\* _select_best_single_face: the faces to return, <<>> standing for None
_select_best_single_face(scored_faces, image) ==
    IF scored_faces = <<>> THEN <<>>
    ELSE LET best_score == scored_faces[1].score
             best_face  == scored_faces[1].face
         IN  IF MeetsMinimumCriteria(best_score, best_face)
             THEN IF /\ Len(scored_faces) > 1
                     /\ best_score - scored_faces[2].score < 15000
                     /\ 2 * _get_face_area(scored_faces[2].face)
                            > 3 * _get_face_area(best_face)
                  THEN <<scored_faces[2].face>>
                  ELSE <<best_face>>
             ELSE <<>>

\* the single-face check always sending the face on to the scoring
SingleFaceGoodEnough_never(face) == FALSE

\* region_quality > 30 and confidence > 0.3 of step 1
SingleFaceGoodEnough(face) ==
    /\ RegionQualityOr(face, 500) > 300
    /\ 10 * face.confidence[1] > 3 * face.confidence[2]

\* optimize_for_single_person(faces, image, return_debug_info=True):
\* [faces, paired, path, scored_faces].  paired tells whether the method
\* returned the pair (faces, debug_info) or, as for an empty list, the list
\* alone; path is "empty", "single" (step 1 accepted the face) or "scoring";
\* scored_faces is the sorted list of step 4.
optimize_for_single_person(faces, image) ==
    IF faces = <<>>
    THEN [faces |-> faces, paired |-> FALSE, path |-> "empty", scored_faces |-> <<>>]
    ELSE IF Len(faces) = 1 /\ SingleFaceGoodEnough(faces[1])
    THEN [faces |-> faces, paired |-> TRUE, path |-> "single", scored_faces |-> <<>>]
    ELSE The({ [faces |-> _select_best_single_face(scored_faces, image),
                paired |-> TRUE, path |-> "scoring", scored_faces |-> scored_faces] :
               scored_faces \in
                 { SortedByScore([i \in 1..Len(faces) |->
                       [score |-> _calculate_single_person_score(faces[i], image),
                        face |-> faces[i]]]) } })

----------------------------------------------------------------------------
(* The inputs the operations are called with *)

Img(W, H, lapStd, grayStd, mean, bits, tex) ==
    [W |-> W, H |-> H, lapStd |-> lapStd, grayStd |-> grayStd, mean |-> mean,
     bits |-> bits, tex |-> tex, steps |-> <<>>]

\* Pictures for assess_image_quality: every combination of these statistics
AssessImages ==
    { Img(200, 200, l, g, m, 8, 0) : l \in {0, 10, 20, 40, 300},
                                     g \in {0, 44, 120},
                                     m \in {0, 125, 255} }

FailureSets == SUBSET {"gray", "blur", "noise", "contrast", "brightness"}

\* Scores handed to enhance_image, in thousandths: the band boundaries 30,
\* 50 and 70, the scores just below them, 0 and 100
EnhanceScores == {0, 29875, 30000, 49875, 50000, 69875, 70000, 100000}

StepFailureSets == SUBSET {"contrast", "denoise", "deblur", "sharpen"}

EnhanceImages == { Img(200, 200, 20, 44, 125, 8, 0), Img(300, 200, 10, 44, 0, 8, 3) }

\* Pictures, with the computations failing on them, for the whole pipeline.
\* Their scores are 85, 84.875, 60, 59.875, 30 and 29.875 (16-bit pictures
\* with a mean far from 125), 50 (grayscale conversion fails) and 24.875
\* (an 8-bit picture on which the noise estimate fails).
AdaptiveInputs ==
    { [image |-> Img(200, 200, 40, 120, 125, 8, 2),  fails |-> {}],
      [image |-> Img(300, 200, 40, 119, 125, 8, 0),  fails |-> {}],
      [image |-> Img(200, 200, 20, 44, 125, 8, 2),   fails |-> {}],
      [image |-> Img(300, 200, 20, 43, 125, 8, 3),   fails |-> {}],
      [image |-> Img(200, 200, 0, 40, 1000, 16, 0),  fails |-> {}],
      [image |-> Img(200, 200, 0, 39, 1000, 16, 0),  fails |-> {}],
      [image |-> Img(300, 200, 40, 120, 125, 8, 2),  fails |-> {"gray"}],
      [image |-> Img(200, 200, 0, 39, 0, 8, 2),      fails |-> {"noise"}] }

\* What the YOLO model may answer for a picture: it raises, finds nothing,
\* one box, or four boxes: two overlapping ones, one reaching over the right
\* edge of a 200 pixel wide picture and an unreasonably thin one.
YoloAnswers ==
    { [raises |-> TRUE,  boxes |-> <<>>],
      [raises |-> FALSE, boxes |-> <<>>],
      [raises |-> FALSE, boxes |-> <<[xyxy |-> <<21, 21, 221, 221>>, conf |-> 90]>>],
      [raises |-> FALSE, boxes |-> <<[xyxy |-> <<20, 20, 220, 220>>, conf |-> 60],
                                     [xyxy |-> <<100, 20, 300, 220>>, conf |-> 90],
                                     [xyxy |-> <<300, 200, 500, 380>>, conf |-> 70],
                                     [xyxy |-> <<40, 40, 60, 200>>, conf |-> 80]>>] }

\* What the Haar cascade may answer: it raises, finds nothing, or rectangles
HaarAnswers ==
    { [raises |-> TRUE,  boxes |-> <<>>],
      [raises |-> FALSE, boxes |-> <<>>],
      [raises |-> FALSE, boxes |-> <<<<10, 120, 60, 60>>, <<60, 10, 100, 100>>,
                                     <<120, 120, 50, 50>>>>] }

NoAnswer == [raises |-> FALSE, boxes |-> <<>>]

\* What time.time() - start_time may come to, in hundredths of a second
Elapsed == {2, 35}

\* The backends' answers for the raw and for the enhanced picture.  A tier
\* that shows the backends one of the two only is given no answer for the other.
Responses(tier) ==
    { [yolo |-> [raw |-> yr, enh |-> ye], haar |-> [raw |-> hr, enh |-> he]] :
        yr \in (IF tier = 3 THEN {NoAnswer} ELSE YoloAnswers),
        ye \in (IF tier \in {1, 2} THEN {NoAnswer} ELSE YoloAnswers),
        hr \in (IF tier = 3 THEN {NoAnswer} ELSE HaarAnswers),
        he \in (IF tier \in {1, 2} THEN {NoAnswer} ELSE HaarAnswers) }

Face(bbox, conf) ==
    [bbox |-> bbox, confidence |-> <<conf, 100>>, model_used |-> "YOLO_yolov8n_face",
     strategy_quality |-> -1]

\* Raw candidates for detect_optimal_faces: four boxes 100 wide, shifted
\* against the first by 30, 40 and 50 pixels (IoU 0.54, 0.43, 0.33), a box
\* apart from them, a box reaching over the right edge, a box starting left
\* of the picture, a degenerate box and a tiny one.
RawFaces ==
    { Face(<<10, 10, 110, 110>>, 90),
      Face(<<40, 10, 140, 110>>, 80),
      Face(<<50, 10, 150, 110>>, 95),
      Face(<<60, 10, 160, 110>>, 50),
      Face(<<10, 120, 70, 180>>, 70),
      Face(<<150, 100, 250, 190>>, 60),
      Face(<<-20, 10, 60, 100>>, 60),
      Face(<<50, 50, 50, 90>>, 99),
      Face(<<0, 0, 20, 20>>, 99) }

SeqsUpTo(S, n) == UNION { [1..k -> S] : k \in 0..n }

\* Pictures for detect_optimal_faces: square ones, wide ones of 60000 and
\* 80000 pixels, and two whose aspect ratio is exactly 1.3 and exactly 0.7
FilterImages ==
    { Img(200, 200, 20, 44, 125, 8, 0),
      Img(200, 200, 20, 44, 125, 8, 2),
      Img(300, 200, 20, 44, 125, 8, 3),
      Img(300, 200, 20, 44, 125, 8, 4),
      Img(400, 200, 20, 44, 125, 8, 0),
      Img(260, 200, 20, 44, 125, 8, 0),
      Img(140, 200, 20, 44, 125, 8, 2) }

\* A crowd: MaxCrowd boxes of 60 x 60 in a row, 40 pixels apart, in large
\* pictures (1.2, 1.6 and exactly 1 megapixel); the second box is reported
\* with confidence 1.0
MaxCrowd == 5

CrowdFace(i) ==
    Face(<<100 * i, 100, 100 * i + 60, 160>>, IF i = 2 THEN 100 ELSE 90 - i)

CrowdLists == { [i \in 1..k |-> CrowdFace(i)] : k \in (MaxCrowd - 1)..MaxCrowd }

CrowdImages ==
    { Img(1200, 1000, 20, 44, 125, 8, 1),
      Img(1600, 1000, 20, 44, 125, 8, 1),
      Img(1000, 1000, 20, 44, 125, 8, 1) }

\* The arguments detect_optimal_faces is called with
OptimalInputs ==
    (SeqsUpTo(RawFaces, MaxFaces) \X FilterImages) \cup (CrowdLists \X CrowdImages)

\* The value of call, ret and prev when there is none
NoValue == [op |-> "none"]

\* longest list of candidates handed to filter_faces
MaxFilterFaces == 4

SmartFace(bbox, conf) ==
    [bbox |-> bbox, confidence |-> <<conf, 100>>, model_used |-> "opencv_fallback",
     region_quality |-> -1, edge_detection |-> FALSE]

\* Candidates for filter_faces: a 20 x 20 box; a box 30 pixels from the left
\* edge and one 10 pixels from it, overlapping each other (IoU 0.67); two
\* boxes further inside; a box covering more than a quarter of a
\* 1000 x 1000 picture.
SmartFaces ==
    { SmartFace(<<100, 100, 120, 120>>, 90),
      SmartFace(<<30, 40, 130, 140>>, 80),
      SmartFace(<<10, 40, 110, 140>>, 70),
      SmartFace(<<500, 500, 600, 600>>, 50),
      SmartFace(<<700, 400, 800, 500>>, 40),
      SmartFace(<<100, 100, 700, 700>>, 95) }

\* longest list of candidates handed to optimize_for_single_person
MaxSingleFaces == 2

SingleFace(bbox, conf, region_quality) ==
    [bbox |-> bbox, confidence |-> <<conf, 100>>, model_used |-> "opencv_fallback",
     region_quality |-> region_quality]

\* Candidates for optimize_for_single_person in a 200 x 200 picture: a
\* centred 100 x 100 box with region_quality 45 and confidence 0.5, with
\* confidence 0.25, with region_quality 30, with region_quality 40 and
\* confidence 0.2 (its score is exactly 60) and without region_quality; two
\* larger centred boxes of poor quality, of 1.5 and of 1.92 times that area;
\* a small box in the corner.
SingleFaces ==
    { SingleFace(<<50, 50, 150, 150>>, 50, 450),
      SingleFace(<<50, 50, 150, 150>>, 25, 450),
      SingleFace(<<50, 50, 150, 150>>, 50, 300),
      SingleFace(<<50, 50, 150, 150>>, 20, 400),
      SingleFace(<<50, 50, 150, 150>>, 50, -1),
      SingleFace(<<50, 25, 150, 175>>, 90, 200),
      SingleFace(<<40, 20, 160, 180>>, 90, 200),
      SingleFace(<<0, 0, 20, 20>>, 90, 900) }

SingleImages == { Img(200, 200, 20, 44, 125, 8, 0) }

\* Pictures for filter_faces, for which min(W, H) * 0.02 is 4, 20 and 40 and
\* min(W, H) * 0.05 is 10, 50 and 100
SmartImages ==
    { Img(200, 200, 20, 44, 125, 8, 5),
      Img(1000, 1000, 20, 44, 125, 8, 5),
      Img(2000, 2000, 20, 44, 125, 8, 5),
      Img(200, 200, 20, 44, 125, 8, 6) }

----------------------------------------------------------------------------
(* The state machine *)

\* The threads that call load_model on the one registry, and how many calls
\* each makes
MaxThreads == 2
MaxCalls == 2
Threads == 1..MaxThreads

\* A thread outside load_model.  model is the local variable `model` and
\* result the value returned: 0 is None, -1 the OpenCV cascade, n > 0 the
\* n-th YOLO object constructed.
IdleThread == [pc |-> "idle", model_type |-> "", model |-> 0, result |-> 0,
               calls |-> 0, hit |-> FALSE]

\* After AdaptiveFaceDetector.__init__: nothing is cached; whether the
\* cascade was created and whether download_models left a loadable model
\* file is the environment's choice.
Init ==
    /\ models = {}
    /\ current_model = "yolov8n_face"
    /\ opencv_cascade \in BOOLEAN
    /\ model_file \in {"ok", "corrupt", "missing"}
    /\ pc = "idle"
    /\ call = NoValue
    /\ ret = NoValue
    /\ prev = NoValue
    /\ threads = [t \in Threads |-> IdleThread]
    /\ cached = <<>>
    /\ constructed = 0

\* The registry as __init__ leaves it when the model file and the cascade
\* are there.  The operations that read nothing of the registry are called
\* in this state only.
FreshRegistry == models = {} /\ opencv_cascade /\ model_file = "ok"

\* ImageEnhancer.assess_image_quality(image)
AssessImageQuality ==
    /\ pc = "idle"
    /\ FreshRegistry
    /\ \E image \in AssessImages, fails \in FailureSets :
          /\ call' = [op |-> "assess_image_quality", image |-> image, fails |-> fails]
          /\ ret' = [quality_score |-> assess_image_quality(image, fails),
                     raised |-> FALSE]
    /\ pc' = "done"
    /\ UNCHANGED <<models, current_model, opencv_cascade, model_file,
                 threads, cached, constructed, prev>>

\* ImageEnhancer.enhance_image(image, quality_score)
EnhanceImage ==
    /\ pc = "idle"
    /\ FreshRegistry
    /\ \E image \in EnhanceImages, quality_score \in EnhanceScores,
          step_fails \in StepFailureSets :
          \E e \in {enhance_image_steps(image, quality_score, step_fails)} :
              /\ call' = [op |-> "enhance_image", image |-> image,
                          quality_score |-> quality_score, step_fails |-> step_fails]
              /\ ret' = [enhanced |-> e.enhanced, image |-> e.image, raised |-> FALSE]
    /\ pc' = "done"
    /\ UNCHANGED <<models, current_model, opencv_cascade, model_file,
                 threads, cached, constructed, prev>>

\* HallOfFacesModels.load_model(model_type)
LoadModel ==
    /\ pc \in {"idle", "done"}
    /\ \E model_type \in {"yolov8n_face", "opencv_haar", "no_such_model"} :
          \E ld \in {load_model(Registry, model_type)} :
              /\ models' = ld.reg.models
              /\ current_model' = ld.reg.current_model
    /\ UNCHANGED <<opencv_cascade, model_file,
                 threads, cached, constructed, pc, call, ret, prev>>

\* HallOfFacesModels.cleanup_models()
CleanupModels ==
    /\ pc \in {"idle", "done"}
    /\ models' = {}
    /\ current_model' = "yolov8n_face"
    /\ UNCHANGED <<opencv_cascade, model_file,
                 threads, cached, constructed, pc, call, ret, prev>>

\* HallOfFacesModels.detect_faces(image, model_type)
DetectFaces ==
    /\ pc = "idle"
    /\ \E image \in FilterImages, resp \in Responses(1),
          model_type \in {"yolov8n_face", "opencv_haar", "no_such_model"} :
          \E d \in {detect_faces(Registry, image, model_type, resp)} :
              /\ call' = [op |-> "detect_faces", image |-> image,
                          model_type |-> model_type, resp |-> resp]
              /\ ret' = [faces |-> d.faces, raised |-> FALSE]
              /\ models' = d.reg.models
              /\ current_model' = d.reg.current_model
    /\ pc' = "done"
    /\ UNCHANGED <<opencv_cascade, model_file,
                 threads, cached, constructed, prev>>

\* IntelligentFaceDetector.detect_optimal_faces(raw_faces, image, True)
DetectOptimalFaces ==
    /\ pc = "idle"
    /\ FreshRegistry
    /\ \E in \in OptimalInputs :
          \E o \in {detect_optimal_faces(in[1], in[2])} :
              /\ call' = [op |-> "detect_optimal_faces", raw_faces |-> in[1],
                          image |-> in[2]]
              /\ ret' = [faces |-> o.faces, debug_info |-> o.debug_info,
                         raised |-> FALSE]
    /\ pc' = "done"
    /\ UNCHANGED <<models, current_model, opencv_cascade, model_file,
                 threads, cached, constructed, prev>>

\* SinglePersonOptimizer.optimize_for_single_person(faces, image, True)
OptimizeForSinglePerson ==
    /\ pc = "idle"
    /\ FreshRegistry
    /\ \E faces \in SeqsUpTo(SingleFaces, MaxSingleFaces), image \in SingleImages :
          \E r \in {optimize_for_single_person(faces, image)} :
              /\ call' = [op |-> "optimize_for_single_person", faces |-> faces,
                          image |-> image]
              /\ ret' = [faces |-> r.faces, paired |-> r.paired, path |-> r.path,
                         scored_faces |-> r.scored_faces, raised |-> FALSE]
    /\ pc' = "done"
    /\ UNCHANGED <<models, current_model, opencv_cascade, model_file,
                 threads, cached, constructed, prev>>

\* SmartFaceFilter.filter_faces(faces, image, True)
FilterFaces ==
    /\ pc = "idle"
    /\ FreshRegistry
    /\ \E faces \in SeqsUpTo(SmartFaces, MaxFilterFaces), image \in SmartImages :
          \E r \in {filter_faces(faces, image)} :
              /\ call' = [op |-> "filter_faces", faces |-> faces, image |-> image]
              /\ ret' = [faces |-> r.faces, paired |-> r.paired,
                         debug_info |-> r.debug_info, stages |-> r.stages,
                         raised |-> FALSE]
    /\ pc' = "done"
    /\ UNCHANGED <<models, current_model, opencv_cascade, model_file,
                 threads, cached, constructed, prev>>

\* One run of detect_faces_adaptive on the arguments `in`
RunAdaptive(in) ==
    \E r \in {detect_faces_adaptive(Registry, in)} :
        /\ call' = [op |-> "detect_faces_adaptive", in |-> in, models_before |-> models]
        /\ ret' = [faces |-> r.faces, metrics |-> r.metrics, raised |-> r.raised]
        /\ models' = r.reg.models
        /\ current_model' = r.reg.current_model
        /\ UNCHANGED <<opencv_cascade, model_file,
                 threads, cached, constructed>>

\* AdaptiveFaceDetector.detect_faces_adaptive(image_path_or_array, True)
DetectFacesAdaptive ==
    /\ pc = "idle"
    /\ \/ RunAdaptive([src |-> "bad_path", image |-> NoValue, fails |-> {},
                       resp |-> NoValue, raise_at |-> 0, elapsed |-> 0])
       \/ \E a \in AdaptiveInputs :
            LET tier == TierOf(assess_image_quality(a.image, a.fails))
            IN  \E resp \in Responses(tier),
                   raise_at \in (IF tier = 4 THEN 0..4 ELSE {0}),
                   elapsed \in Elapsed :
                    RunAdaptive([src |-> "array", image |-> a.image, fails |-> a.fails,
                                 resp |-> resp, raise_at |-> raise_at,
                                 elapsed |-> elapsed])
    /\ pc' = "done"
    /\ prev' = NoValue

\* The same detector is called again on the same picture and the backends
\* answer as before (the clock need not); prev keeps what the first run returned and which models
\* were cached when it started.
DetectFacesAdaptiveAgain ==
    /\ pc = "done"
    /\ call.op = "detect_faces_adaptive"
    /\ \E elapsed \in (IF call.in.src = "array" THEN Elapsed ELSE {0}) :
          RunAdaptive([call.in EXCEPT !.elapsed = elapsed])
    /\ pc' = "repeated"
    /\ prev' = [faces |-> ret.faces, raised |-> ret.raised,
                models_before |-> call.models_before]

\* The caller has read the result.
Return ==
    /\ pc \in {"done", "repeated"}
    /\ pc' = "idle"
    /\ call' = NoValue
    /\ ret' = NoValue
    /\ prev' = NoValue
    /\ UNCHANGED <<models, current_model, opencv_cascade, model_file,
                 threads, cached, constructed>>

Next ==
    \/ AssessImageQuality
    \/ EnhanceImage
    \/ LoadModel
    \/ CleanupModels
    \/ DetectFaces
    \/ DetectOptimalFaces
    \/ FilterFaces
    \/ OptimizeForSinglePerson
    \/ DetectFacesAdaptive
    \/ DetectFacesAdaptiveAgain
    \/ Return

Spec == Init /\ [][Next]_vars

----------------------------------------------------------------------------
(* core/hof_models.py : load_model called from several threads.  The method *)
(* takes no lock, so a thread can be preempted between the cache lookup,    *)
(* the construction of the YOLO object and the store into self.models.      *)

\* a lookup that never finds the model
CachedHandle_miss(cache, model_type) == 0

\* `model_type in self.models` and self.models[model_type]: the handle
\* cached for the type, 0 if there is none
CachedHandle(cache, model_type) ==
    IF model_type \in DOMAIN cache THEN cache[model_type] ELSE 0

\* self.models[model_type] = model
StoreHandle(cache, model_type, model) ==
    [m \in DOMAIN cache \cup {model_type} |->
        IF m = model_type THEN model ELSE cache[m]]

\* A thread calls load_model(model_type).
BeginLoad(t) ==
    /\ threads[t].pc = "idle"
    /\ threads[t].calls < MaxCalls
    /\ \E model_type \in {"yolov8n_face", "opencv_haar", "no_such_model"} :
          threads' = [threads EXCEPT ![t] =
                         [pc |-> "lookup", model_type |-> model_type, model |-> 0,
                          result |-> 0, calls |-> @.calls + 1, hit |-> FALSE]]
    /\ UNCHANGED <<models, current_model, opencv_cascade, model_file,
                   pc, call, ret, prev, cached, constructed>>

\* The checks before the construction: the built-in cascade, the cache, the
\* known model types, the model file.
LookupCache(t) ==
    /\ threads[t].pc = "lookup"
    /\ LET model_type == threads[t].model_type
           handle == CachedHandle(cached, model_type)
       IN  threads' = [threads EXCEPT ![t] =
               IF model_type = "opencv_haar"
               THEN [@ EXCEPT !.pc = "done",
                              !.result = IF opencv_cascade THEN -1 ELSE 0]
               ELSE IF handle # 0
               THEN [@ EXCEPT !.pc = "done", !.result = handle, !.hit = TRUE]
               ELSE IF model_type \notin model_configs
                       \/ ~ModelPathExists(Registry, model_type)
               THEN [@ EXCEPT !.pc = "done", !.result = 0]
               ELSE [@ EXCEPT !.pc = "construct"]]
    /\ UNCHANGED <<models, current_model, opencv_cascade, model_file,
                   pc, call, ret, prev, cached, constructed>>

\* model = YOLO(str(model_path)); a file YOLO cannot read raises, the
\* handler returns None
ConstructModel(t) ==
    /\ threads[t].pc = "construct"
    /\ IF model_file = "ok"
       THEN /\ constructed' = constructed + 1
            /\ threads' = [threads EXCEPT ![t].pc = "store",
                                          ![t].model = constructed + 1]
       ELSE /\ constructed' = constructed
            /\ threads' = [threads EXCEPT ![t].pc = "done", ![t].result = 0]
    /\ UNCHANGED <<models, current_model, opencv_cascade, model_file,
                   pc, call, ret, prev, cached>>

\* self.models[model_type] = model; self.current_model = model_type
StoreModel(t) ==
    /\ threads[t].pc = "store"
    /\ cached' = StoreHandle(cached, threads[t].model_type, threads[t].model)
    /\ models' = models \cup {threads[t].model_type}
    /\ current_model' = threads[t].model_type
    /\ threads' = [threads EXCEPT ![t].pc = "return"]
    /\ UNCHANGED <<opencv_cascade, model_file, pc, call, ret, prev, constructed>>

\* return model
ReturnModel(t) ==
    /\ threads[t].pc = "return"
    /\ threads' = [threads EXCEPT ![t].pc = "done", ![t].result = threads[t].model]
    /\ UNCHANGED <<models, current_model, opencv_cascade, model_file,
                   pc, call, ret, prev, cached, constructed>>

\* The caller has taken the handle.
EndLoad(t) ==
    /\ threads[t].pc = "done"
    /\ threads' = [threads EXCEPT ![t].pc = "idle"]
    /\ UNCHANGED <<models, current_model, opencv_cascade, model_file,
                   pc, call, ret, prev, cached, constructed>>

NextLoad ==
    \E t \in Threads :
        \/ BeginLoad(t)
        \/ LookupCache(t)
        \/ ConstructModel(t)
        \/ StoreModel(t)
        \/ ReturnModel(t)
        \/ EndLoad(t)

SpecLoad == Init /\ [][NextLoad]_vars

----------------------------------------------------------------------------
(* What the last call was and what it returned *)

IsOptimalCall == call.op = "detect_optimal_faces"

\* A run of detect_faces_adaptive on a picture that could be read
IsAdaptiveRun == call.op = "detect_faces_adaptive" /\ call.in.src = "array"

\* A run that returned its metrics
HasMetrics == IsAdaptiveRun /\ ~ret.raised

IsProgressiveRun ==
    HasMetrics /\ ret.metrics.tier_used = "tier_4_progressive_yolo_fallback"

\* The debug_info of the last detect_optimal_faces call, made directly or
\* inside detect_faces_adaptive
LastDebugInfo ==
    IF IsOptimalCall THEN ret.debug_info
    ELSE IF HasMetrics THEN ret.metrics.intelligent_debug
    ELSE EmptyDict

\* The picture the last detect_optimal_faces call was given
LastImage == IF IsOptimalCall THEN call.image ELSE call.in.image

\* The largest entry of a sequence of integers, or 0
MaxOrZero(q) == IF \A i \in DOMAIN q : q[i] <= 0 THEN 0 ELSE MaxSeq(q)

----------------------------------------------------------------------------
(* C1 *)

\* C1: no two faces of a final result of detect_optimal_faces have an IoU
\* above the overlap_threshold of the strategy reported as final_strategy
\* (conservative 0.3, balanced 0.4, aggressive 0.5).
C1_NoOverlapAboveWinnerThreshold ==
    "final_strategy" \in DOMAIN LastDebugInfo =>
        \A i, j \in 1..Len(ret.faces) :
            i < j =>
                LET r == _calculate_overlap_ratio(ret.faces[i].bbox, ret.faces[j].bbox)
                    t == CASE LastDebugInfo.final_strategy = "conservative" -> 3
                           [] LastDebugInfo.final_strategy = "balanced" -> 4
                           [] LastDebugInfo.final_strategy = "aggressive" -> 5
                IN  10 * r[1] <= t * r[2]

\* The aggressive strategy won with two faces that overlap by more than 0.3,
\* after a raw candidate was dropped.
C1_Witness ==
    /\ IsOptimalCall
    /\ "final_strategy" \in DOMAIN ret.debug_info
    /\ ret.debug_info.final_strategy = "aggressive"
    /\ Len(ret.faces) < Len(call.raw_faces)
    /\ \E i, j \in 1..Len(ret.faces) :
          /\ i < j
          /\ OverlapExceeds(ret.faces[i].bbox, ret.faces[j].bbox, 3)

----------------------------------------------------------------------------
(* C2 *)

\* C2: the tier is decided by the composite score alone, every score in
\* [0, 100] has exactly one tier: >= 85 fast, [60, 85) accurate, [30, 60)
\* enhanced-accurate (one backend call, on the enhanced picture), < 30
\* progressive.
C2_TierByScore ==
    HasMetrics =>
        LET q == ret.metrics.quality_score
            tier_used == ret.metrics.tier_used
            shown == ret.metrics.shown
        IN  /\ q >= 0 /\ q <= 100000
            /\ q >= 85000 =>
                  /\ tier_used = "tier_1_yolo_fast_yolov8n_face"
                  /\ shown = <<call.in.image>>
            /\ (q >= 60000 /\ q < 85000) =>
                  /\ tier_used = "tier_2_yolo_accurate_yolov8n_face"
                  /\ shown = <<call.in.image>>
            /\ (q >= 30000 /\ q < 60000) =>
                  /\ tier_used = "tier_3_enhanced_yolo_yolov8n_face"
                  /\ Len(shown) = 1
                  /\ shown[1].steps # <<>>
                  /\ shown[1].steps[1] = "contrast"
            /\ q < 30000 => tier_used = "tier_4_progressive_yolo_fallback"

\* A picture scoring exactly 30 went through the enhanced tier.
C2_Witness ==
    /\ HasMetrics
    /\ ret.metrics.quality_score = 30000
    /\ ret.metrics.tier_used = "tier_3_enhanced_yolo_yolov8n_face"

----------------------------------------------------------------------------
(* C3 *)

\* What detect_faces returns for method i of the progressive list on the
\* last run's picture and answers
ProgressiveMethodFaces(i) ==
    LET m == ProgressiveMethods(call.in.image, ret.metrics.quality_score)[i]
    IN  detect_faces(Registry, m.img, m.model_type, call.in.resp).faces

\* C3 as stated: the progressive tier tries all four pairs and returns the
\* result with the most candidates among them, not stopping at the first
\* non-empty one.
C3_BestOfAll ==
    IsProgressiveRun =>
        \A i \in 1..4 :
            i # call.in.raise_at =>
                Len(ProgressiveMethodFaces(i)) <= ret.metrics.raw_detections

\* C3 amended: the progressive tier tries the pairs (fast, raw),
\* (accurate, raw), (accurate, enhanced), (fallback, raw) in this order and
\* stops at the first one that returns a non-empty result, which it returns;
\* no later pair is tried.  It returns an empty result after trying all four
\* when none of them returns a face.
C3_FirstNonEmpty ==
    IsProgressiveRun =>
        LET attempts == ret.metrics.attempts
            shown == ret.metrics.shown
            n == Len(attempts)
        IN  /\ n >= 1 /\ n <= 4
            /\ \A k \in 1..n :
                  /\ shown[k].steps = IF k = 3 THEN <<"contrast", "denoise", "deblur", "sharpen">>
                                      ELSE <<>>
                  /\ k # call.in.raise_at => attempts[k] = Len(ProgressiveMethodFaces(k))
                  /\ k < n => attempts[k] <= 0
            /\ attempts[n] > 0 => ret.metrics.raw_detections = attempts[n]
            /\ attempts[n] <= 0 => n = 4 /\ ret.metrics.raw_detections = 0

\* The first pair returned one candidate and was returned, though the
\* enhanced picture would have given two.
C3_Witness ==
    /\ IsProgressiveRun
    /\ ret.metrics.attempts = <<1>>
    /\ Len(ProgressiveMethodFaces(3)) > 1

----------------------------------------------------------------------------
(* C4 *)

\* C4: when the selected tier yields no raw candidate, detect_faces_adaptive
\* returns no face, strategy 'unknown' and scenario 'no_faces', and raises
\* nothing, whatever the score and the tier.
C4_NoRawCandidates ==
    IsAdaptiveRun =>
        /\ ~ret.raised
        /\ ret.metrics.raw_detections = 0 =>
              /\ ret.faces = <<>>
              /\ ret.metrics.strategy_used = "unknown"
              /\ ret.metrics.detection_scenario = "no_faces"
              /\ ret.metrics.faces_detected = 0

\* The progressive tier tried all four pairs and none returned a candidate.
C4_Witness ==
    /\ IsProgressiveRun
    /\ Len(ret.metrics.attempts) = 4
    /\ ret.metrics.raw_detections = 0
    /\ ret.metrics.strategy_used = "unknown"

----------------------------------------------------------------------------
(* C5 *)

\* C5: a second run of detect_faces_adaptive on the same picture with the
\* same backend answers returns the same faces (boxes, order, confidences),
\* whatever the detector did before.
C5_Deterministic ==
    pc = "repeated" => ret.faces = prev.faces /\ ret.raised = prev.raised

\* The first run started with no model cached, the second with the model
\* cached, and both returned two faces with adjusted confidences.
C5_Witness ==
    /\ pc = "repeated"
    /\ prev.models_before = {}
    /\ call.models_before = {"yolov8n_face"}
    /\ Len(ret.faces) = 2
    /\ ret.faces[1].model_used = "YOLO_yolov8n_face"
    /\ \E i \in 1..2 : ret.faces[i].confidence[2] # 100

----------------------------------------------------------------------------
(* C6 *)

\* The primary backend of the last detect_faces call returned no candidate:
\* its model is unknown, missing or cannot be loaded, its inference raised,
\* or it found no reasonable box.
PrimaryReturnedNothing ==
    \/ call.model_type \notin model_configs
    \/ ~ModelPathExists(Registry, call.model_type)
    \/ model_file # "ok"
    \/ call.resp.yolo.raw.raises
    \/ \A i \in 1..Len(call.resp.yolo.raw.boxes) :
          ~YoloBoxReasonable(call.resp.yolo.raw.boxes[i])

\* C6: detect_faces for a primary backend: when the primary backend returns
\* no candidate and the fallback is configured, the fallback's result is
\* returned (so its faces, when it finds some); without a fallback the
\* result is empty.
C6_FallbackAfterEmptyPrimary ==
    (call.op = "detect_faces" /\ call.model_type # "opencv_haar"
        /\ PrimaryReturnedNothing) =>
        LET h == call.resp.haar.raw
        IN  /\ ~ret.raised
            /\ ~opencv_cascade => ret.faces = <<>>
            /\ (opencv_cascade /\ h.raises) => ret.faces = <<>>
            /\ (opencv_cascade /\ ~h.raises) =>
                  /\ Len(ret.faces) = Len(h.boxes)
                  /\ \A i \in 1..Len(ret.faces) :
                        /\ ret.faces[i].model_used = "opencv_fallback"
                        /\ ret.faces[i].bbox[1] = h.boxes[i][1]
                        /\ ret.faces[i].bbox[2] = h.boxes[i][2]
                        /\ ret.faces[i].bbox[3] = h.boxes[i][1] + h.boxes[i][3]
                        /\ ret.faces[i].bbox[4] = h.boxes[i][2] + h.boxes[i][4]

\* The YOLO inference raised and the faces of the fallback were returned.
C6_Witness ==
    /\ call.op = "detect_faces"
    /\ call.model_type = "yolov8n_face"
    /\ model_file = "ok"
    /\ call.resp.yolo.raw.raises
    /\ Len(ret.faces) = 3
    /\ ret.faces[1].model_used = "opencv_fallback"

----------------------------------------------------------------------------
(* C7 *)

\* C7: no error leaves the pipeline; in the progressive tier a pair whose
\* attempt raises counts as no candidate, the next pair is tried, and the
\* best result of the pairs tried is returned.
C7_ErrorsContained ==
    IsAdaptiveRun =>
        /\ ~ret.raised
        /\ (IsProgressiveRun /\ call.in.raise_at \in 1..Len(ret.metrics.attempts)) =>
              LET attempts == ret.metrics.attempts
                  k == call.in.raise_at
              IN  /\ attempts[k] = -1
                  /\ k < 4 => Len(attempts) > k
                  /\ ret.metrics.raw_detections = MaxOrZero(attempts)

\* The first pair's attempt raised, the YOLO inference raised too, and the
\* faces a later pair found were returned.
C7_Witness ==
    /\ IsProgressiveRun
    /\ call.in.raise_at = 1
    /\ call.in.resp.yolo.raw.raises
    /\ Len(ret.metrics.attempts) >= 2
    /\ ret.metrics.raw_detections > 0
    /\ ret.faces # <<>>

----------------------------------------------------------------------------
(* C8 *)

\* C8: every face of a final result has a valid box (x2 > x1, y2 > y1) that
\* lies within the picture (0 <= x1, x2 <= W, 0 <= y1, y2 <= H).
C8_BoxesValidAndInBounds ==
    (IsOptimalCall \/ HasMetrics) =>
        \A i \in 1..Len(ret.faces) :
            LET b == ret.faces[i].bbox
            IN  /\ b[3] > b[1] /\ b[4] > b[2]
                /\ 0 <= b[1] /\ b[3] <= LastImage.W
                /\ 0 <= b[2] /\ b[4] <= LastImage.H

----------------------------------------------------------------------------
(* C9 *)

\* C9: assess_image_quality returns a composite score in [0, 100]; the four
\* sub-scores lie in [0, 100] each and, unless the grayscale conversion
\* failed, the composite is 0.3 blur + 0.25 noise + 0.25 contrast
\* + 0.2 brightness, clamped to [0, 100].
C9_CompositeInRange ==
    call.op = "assess_image_quality" =>
        LET blur       == _calculate_blur_score(call.image, call.fails)
            noise      == _calculate_noise_score(call.image, call.fails)
            contrast   == _calculate_contrast_score(call.image, call.fails)
            brightness == _calculate_brightness_score(call.image, call.fails)
            total      == 30 * blur + 25 * noise + 25 * contrast + 20 * brightness
        IN  /\ ret.quality_score >= 0 /\ ret.quality_score <= 100000
            /\ \A x \in {blur, noise, contrast, brightness} : x >= 0 /\ x <= 1000
            /\ "gray" \notin call.fails =>
                  ret.quality_score = Min(100000, Max(0, total))

\* A picture whose Laplacian is so wide that the blur score is capped at 100
\* and the noise score at 0 was scored.
C9_Witness ==
    /\ call.op = "assess_image_quality"
    /\ call.fails = {}
    /\ call.image.lapStd = 300
    /\ call.image.grayStd = 120
    /\ call.image.mean = 125
    /\ ret.quality_score = 65000

----------------------------------------------------------------------------
(* C10 *)

\* C10 as stated: any failure inside the assessment, of the grayscale
\* conversion or of one of the four sub-scores, makes assess_image_quality
\* return 50.
C10_AnyFailureGivesFifty ==
    (call.op = "assess_image_quality" /\ call.fails # {}) =>
        ret.quality_score = 50000 /\ ~ret.raised

\* C10 amended: assess_image_quality never raises.  A failure of the
\* grayscale conversion makes it return 50.  A failure inside a sub-score
\* computation makes that sub-score 50, and the composite is still the
\* clamped weighted sum of the four sub-scores.
C10_FailureDefaults ==
    call.op = "assess_image_quality" =>
        LET Sub(name, value) == IF name \in call.fails THEN 500 ELSE value
            blur       == Sub("blur", Min(1000, call.image.lapStd * call.image.lapStd))
            noise      == Sub("noise", Max(0, 1000 - 5 * call.image.lapStd))
            contrast   == Sub("contrast", Min(1000, 5 * call.image.grayStd))
            brightness == Sub("brightness",
                              Max(0, 1000 - 5 * Abs(call.image.mean - 125)))
        IN  /\ ~ret.raised
            /\ "gray" \in call.fails => ret.quality_score = 50000
            /\ "gray" \notin call.fails =>
                  ret.quality_score =
                      Min(100000, Max(0, 30 * blur + 25 * noise + 25 * contrast
                                         + 20 * brightness))

\* The blur computation alone failed and the score is not 50.
C10_Witness ==
    /\ call.op = "assess_image_quality"
    /\ call.fails = {"blur"}
    /\ ret.quality_score # 50000

----------------------------------------------------------------------------
(* C11 *)

\* C11: for any input, also a path that cannot be loaded,
\* detect_faces_adaptive(input, return_metrics=True) returns metrics holding
\* quality_score, tier_used and processing_time, and every face returned
\* carries confidence and model_used.
C11_MetricsAlwaysComplete ==
    call.op = "detect_faces_adaptive" =>
        /\ ~ret.raised
        /\ {"quality_score", "tier_used", "processing_time"} \subseteq DOMAIN ret.metrics
        /\ \A i \in 1..Len(ret.faces) :
              {"confidence", "model_used"} \subseteq DOMAIN ret.faces[i]

----------------------------------------------------------------------------
(* C12 *)

IsFilterCall == call.op = "filter_faces"

\* C12: after a run every raw candidate absent from the final result has
\* exactly one removal record in the diagnostics: raw count = final count
\* + number of removal records, for detect_optimal_faces and for
\* filter_faces.
C12_EveryDiscardRecorded ==
    /\ (IsOptimalCall /\ call.raw_faces # <<>>) =>
          Len(call.raw_faces) = Len(ret.faces) + Len(ret.debug_info.removed_faces)
    /\ (IsFilterCall /\ call.faces # <<>>) =>
          Len(call.faces) = Len(ret.faces) + Len(ret.debug_info.removed_faces)

----------------------------------------------------------------------------
(* C13 *)

IsSingleCall == call.op = "optimize_for_single_person"

\* C13: given exactly one candidate with region_quality > 30 and
\* confidence > 0.3, the single-person resolver returns that candidate
\* unchanged (box, confidence, region_quality) and applies no scoring.
C13_GoodSingleFaceUnchanged ==
    (/\ IsSingleCall
     /\ Len(call.faces) = 1
     /\ call.faces[1].region_quality > 300
     /\ 10 * call.faces[1].confidence[1] > 3 * call.faces[1].confidence[2]) =>
        /\ ret.faces = call.faces
        /\ ret.path = "single"
        /\ ret.scored_faces = <<>>
        /\ ~ret.raised

\* The candidate of the example, region_quality 45 and confidence 0.5, came
\* back as it went in.
C13_Witness ==
    /\ IsSingleCall
    /\ Len(call.faces) = 1
    /\ call.faces[1].region_quality = 450
    /\ call.faces[1].confidence = <<50, 100>>
    /\ ret.faces = call.faces
    /\ ret.path = "single"

----------------------------------------------------------------------------
(* C14 *)

\* C14: on the scoring path the resolver returns a face only if the
\* top-scored candidate has a total score >= 60, region_quality >= 40 and
\* confidence >= 0.2, an empty list in every other case, and never more
\* than one face.
C14_ScoringPathThresholds ==
    (IsSingleCall /\ ret.path = "scoring") =>
        LET top == ret.scored_faces[1]
            top_ok ==
                /\ top.score >= 60000
                /\ top.face.region_quality >= 400
                /\ 100 * top.face.confidence[1] >= 20 * top.face.confidence[2]
        IN  /\ Len(ret.scored_faces) = Len(call.faces)
            /\ \A i \in 1..Len(ret.scored_faces) :
                  \A j \in 1..Len(ret.scored_faces) :
                      i < j => ret.scored_faces[i].score >= ret.scored_faces[j].score
            /\ Len(ret.faces) <= 1
            /\ top_ok => Len(ret.faces) = 1
            /\ ~top_ok => ret.faces = <<>>

\* A lone candidate with score exactly 60, region_quality exactly 40 and
\* confidence exactly 0.2 went through the scoring and was returned.
C14_Witness ==
    /\ IsSingleCall
    /\ ret.path = "scoring"
    /\ Len(ret.faces) = 1
    /\ ret.scored_faces[1].score = 60000
    /\ ret.scored_faces[1].face.region_quality = 400
    /\ ret.scored_faces[1].face.confidence = <<20, 100>>

----------------------------------------------------------------------------
(* C15 *)

\* The candidates the strategies of the last detect_optimal_faces call were
\* given, each with its region quality, that pass the quality threshold of
\* the winning strategy
PassingCandidates ==
    LET initial == _initial_quality_filter(call.raw_faces, call.image).faces
        threshold ==
            detection_strategies[ret.debug_info.final_strategy].quality_threshold
    IN  { f \in { [initial[i] EXCEPT !.strategy_quality =
                        _analyze_face_region_quality(initial[i], call.image)] :
                   i \in 1..Len(initial) } :
          f.strategy_quality >= threshold }

\* The candidate's box is the box of a face of the result
Survives(f) == \E k \in 1..Len(ret.faces) : ret.faces[k].bbox = f.bbox

\* The IoU of the two candidates is above the winning strategy's threshold
OverlapsUnderWinner(f, g) ==
    LET r == _calculate_overlap_ratio(f.bbox, g.bbox)
        t == detection_strategies[ret.debug_info.final_strategy].overlap_threshold
    IN  10 * r[1] > t * r[2]

\* 0.6 * strategy_quality + 0.4 * confidence of g is at least that of f
\* (the quality in twentieths, the confidence a fraction)
KeyAtLeast(g, f) ==
    (3 * g.strategy_quality * g.confidence[2] + 40 * g.confidence[1])
            * f.confidence[2]
        >= (3 * f.strategy_quality * f.confidence[2] + 40 * f.confidence[1])
            * g.confidence[2]

\* C15 as stated: of two candidates that pass the strategy's quality
\* threshold and whose IoU exceeds its overlap_threshold, only the one with
\* the higher confidence survives.
C15_HigherConfidenceSurvives ==
    (IsOptimalCall /\ call.raw_faces # <<>>) =>
        \A f, g \in PassingCandidates :
            (OverlapsUnderWinner(f, g) /\ f.confidence[1] > g.confidence[1]) =>
                Survives(f) /\ ~Survives(g)

\* C15 amended: overlap resolution under a strategy visits the candidates in
\* descending order of 0.6 * strategy_quality + 0.4 * confidence and keeps a
\* candidate unless its IoU with a candidate kept before exceeds the
\* overlap_threshold.  So two candidates overlapping above the threshold
\* never both survive, and a candidate that passed the quality threshold is
\* dropped only if it overlaps a survivor whose combined key is at least its
\* own; the confidence alone does not decide.
C15_HigherKeySurvives ==
    (IsOptimalCall /\ call.raw_faces # <<>>) =>
        /\ \A f, g \in PassingCandidates :
              (f.bbox # g.bbox /\ OverlapsUnderWinner(f, g)) =>
                  ~(Survives(f) /\ Survives(g))
        /\ \A f \in PassingCandidates :
              ~Survives(f) =>
                  \E g \in PassingCandidates :
                      /\ Survives(g)
                      /\ OverlapsUnderWinner(f, g)
                      /\ KeyAtLeast(g, f)

\* A candidate was dropped for overlapping a survivor of lower confidence
\* and higher region quality.
C15_Witness ==
    /\ IsOptimalCall
    /\ call.raw_faces # <<>>
    /\ \E f, g \in PassingCandidates :
          /\ OverlapsUnderWinner(f, g)
          /\ f.confidence[1] > g.confidence[1]
          /\ g.strategy_quality > f.strategy_quality
          /\ ~Survives(f)
          /\ Survives(g)

----------------------------------------------------------------------------
(* C16 *)

\* No thread is inside load_model
Quiescent == \A t \in Threads : threads[t].pc \in {"idle", "done"}

\* The thread's load_model("yolov8n_face") has returned
LoadedYolo(t) ==
    threads[t].pc = "done" /\ threads[t].model_type = "yolov8n_face"

\* C16: handles are constructed lazily and memoized.  With the model file
\* of m on disk and loadable, under every interleaving of concurrent
\* load_model(m) calls on one registry: every call returns a usable handle
\* (one of the YOLO objects constructed); nothing is constructed before the
\* first call; once all calls have finished the cache holds one handle for
\* m, one of those constructed (duplicate load, then overwrite); a call that
\* finds m cached returns the cached handle and constructs nothing, so no
\* thread constructs twice.
C16_LazyMemoizedUnderRaces ==
    /\ [](model_file = "ok" =>
            /\ \A t \in Threads :
                  LoadedYolo(t) => threads[t].result \in 1..constructed
            /\ (\A t \in Threads : threads[t].calls = 0) =>
                  constructed = 0 /\ cached = <<>>
            /\ (Quiescent /\ \E t \in Threads : LoadedYolo(t)) =>
                  /\ DOMAIN cached = {"yolov8n_face"}
                  /\ cached["yolov8n_face"] \in 1..constructed
            /\ constructed <= MaxThreads)
    /\ [][\A t \in Threads :
            (/\ threads[t].pc = "lookup"
             /\ threads'[t].pc # "lookup"
             /\ threads[t].model_type \in DOMAIN cached)
            => /\ threads'[t].pc = "done"
               /\ threads'[t].result = cached[threads[t].model_type]
               /\ constructed' = constructed
               /\ cached' = cached]_vars

\* Two threads raced on the first use and each constructed a YOLO object;
\* the cache holds one of the two, and a later call was answered from the
\* cache.
C16_Witness ==
    /\ model_file = "ok"
    /\ Quiescent
    /\ constructed = 2
    /\ \E t \in Threads :
          /\ LoadedYolo(t)
          /\ threads[t].calls = 2
          /\ threads[t].hit
          /\ threads[t].result = cached["yolov8n_face"]
    /\ \E t \in Threads :
          /\ LoadedYolo(t)
          /\ ~threads[t].hit
          /\ threads[t].result # cached["yolov8n_face"]

----------------------------------------------------------------------------
(* C17 *)

\* 0.4 * consistency_score + scenario_bonus + quality_bonus of a strategy, in
\* hundredths, from what debug_info reports of the strategy
ScoreBeforePenalty(s) ==
    LET tested == ret.debug_info.strategies_tested[s]
        scenario == ret.debug_info.image_context.likely_scenario
    IN  2 * tested.consistency_score
        + (CASE scenario = "portrait" /\ tested.faces_found = 1 -> 3000
             [] scenario = "group" /\ tested.faces_found >= 2 -> 2000
             [] scenario = "classroom" /\ tested.faces_found >= 3 -> 2500
             [] OTHER -> 0)
        + (IF tested.avg_quality[1] > 1200 * tested.avg_quality[2] THEN 1000
           ELSE IF tested.avg_quality[1] > 800 * tested.avg_quality[2] THEN 500
           ELSE 0)

\* count > 2 * max(1, area / 50000), the quotient not rounded
OverDetectedExact(s) ==
    ret.debug_info.strategies_tested[s].faces_found * 50000
        > 2 * Max(50000, call.image.H * call.image.W)

\* count > 2 * max(1, int(area / 50000)), the quotient truncated
OverDetectedTruncated(s) ==
    ret.debug_info.strategies_tested[s].faces_found
        > 2 * Max(1, (call.image.H * call.image.W) \div 50000)

\* The boxes of the faces of a list, in order
BoxesOf(faces) == [i \in 1..Len(faces) |-> faces[i].bbox]

\* The result is the filtered set of the strategy reported as the winner,
\* and no strategy has a higher score.
WinnerIsOutput ==
    LET winner == ret.debug_info.final_strategy
        filtered == _test_detection_strategy(
                        _initial_quality_filter(call.raw_faces, call.image).faces,
                        call.image, detection_strategies[winner]).faces
    IN  /\ \A s \in DOMAIN ret.debug_info.strategy_scores :
              ret.debug_info.strategy_scores[winner]
                  >= ret.debug_info.strategy_scores[s]
        /\ BoxesOf(ret.faces) = BoxesOf(filtered)

\* C17 as stated: the penalty of 15 applies when the strategy's count is
\* above 2 * max(1, area / 50000).
C17_ScoreWithExactQuotient ==
    (IsOptimalCall /\ call.raw_faces # <<>>) =>
        /\ \A s \in DOMAIN ret.debug_info.strategy_scores :
              ret.debug_info.strategy_scores[s] =
                  ScoreBeforePenalty(s) - (IF OverDetectedExact(s) THEN 1500 ELSE 0)
        /\ WinnerIsOutput

\* C17 amended: the score of a strategy is 0.4 * consistency_score
\* + scenario_bonus (30 portrait and count = 1, 20 group and count >= 2,
\* 25 classroom and count >= 3, else 0) - 15 when count >
\* 2 * max(1, floor(area / 50000)) + quality_bonus (10 if avg_quality > 60,
\* 5 if avg_quality > 40, else 0); the filtered set of a strategy with the
\* highest score is the output.
C17_ScoreWithTruncatedQuotient ==
    (IsOptimalCall /\ call.raw_faces # <<>>) =>
        /\ \A s \in DOMAIN ret.debug_info.strategy_scores :
              ret.debug_info.strategy_scores[s] =
                  ScoreBeforePenalty(s) - (IF OverDetectedTruncated(s) THEN 1500 ELSE 0)
        /\ WinnerIsOutput

\* Three faces found in a picture of 80000 pixels: the strategy is penalised
\* although 3 is not above 2 * 80000 / 50000 = 3.2; it got the bonus of a
\* group picture, and a strategy that found fewer faces won.
C17_Witness ==
    /\ IsOptimalCall
    /\ call.raw_faces # <<>>
    /\ ret.debug_info.image_context.likely_scenario = "group"
    /\ \E s \in DOMAIN ret.debug_info.strategy_scores :
          /\ OverDetectedTruncated(s)
          /\ ~OverDetectedExact(s)
          /\ ret.debug_info.strategies_tested[s].faces_found = 3
          /\ ret.debug_info.final_strategy # s
          /\ ret.debug_info.final_count = 2

----------------------------------------------------------------------------
(* C18 *)

\* The number of candidates the strategies are given: those the initial
\* quality filter let through
PreStrategyCount ==
    Len(_initial_quality_filter(call.raw_faces, call.image).faces)

\* The label of the first matching rule, the portrait rule taking the
\* aspect ratios in [0.7, 1.3] when closed and in (0.7, 1.3) otherwise
FirstMatchingRule(closed) ==
    LET W == call.image.W
        H == call.image.H
        count == PreStrategyCount
        square == IF closed THEN 10 * W >= 7 * H /\ 10 * W <= 13 * H
                  ELSE 10 * W > 7 * H /\ 10 * W < 13 * H
    IN  CASE square /\ count <= 2 -> "portrait"
          [] ~(square /\ count <= 2) /\ 10 * W > 13 * H /\ count >= 3 -> "group"
          [] ~(square /\ count <= 2) /\ ~(10 * W > 13 * H /\ count >= 3)
                /\ H * W > 1000000 /\ count >= 5 -> "classroom"
          [] ~(square /\ count <= 2) /\ ~(10 * W > 13 * H /\ count >= 3)
                /\ ~(H * W > 1000000 /\ count >= 5) /\ count = 2 -> "pair"
          [] OTHER -> "general"

----------------------------------------------------------------------------
(* C19 *)

\* The last call was filter_faces on a list that is not empty, so that
\* every stage ran
FilterStagesRan == IsFilterCall /\ call.faces # <<>>

\* The faces of a list, as a set
FacesOf(faces) == {faces[i] : i \in 1..Len(faces)}

\* C19: the size stage discards a candidate exactly when its width or
\* height is below max(30, 2% of min(W, H)), or its width or height is above
\* 80% of min(W, H), or its area is above 25% of the image area; a 20 x 20
\* box in a 1000 x 1000 image is discarded.
C19_SizeStageDiscards ==
    FilterStagesRan =>
        \A f \in FacesOf(ret.stages[1].input) :
            LET face_width  == f.bbox[3] - f.bbox[1]
                face_height == f.bbox[4] - f.bbox[2]
                shortest    == Min(call.image.W, call.image.H)
                lowest      == Max(3000, 2 * shortest)
            IN  (f \notin FacesOf(ret.stages[1].output))
                <=> \/ 100 * face_width < lowest
                    \/ 100 * face_height < lowest
                    \/ 100 * face_width > 80 * shortest
                    \/ 100 * face_height > 80 * shortest
                    \/ 4 * face_width * face_height
                           > call.image.W * call.image.H

----------------------------------------------------------------------------
(* C20 *)

\* C20: the position stage never discards a candidate, its output holding
\* exactly its input candidates; a candidate whose box comes within 5% of
\* min(W, H) of an edge of the image has its confidence multiplied by 0.3,
\* and the confidence of every other candidate is unchanged.
C20_PositionStageScalesNearEdges ==
    FilterStagesRan =>
        LET input  == ret.stages[3].input
            output == ret.stages[3].output
            margin == 5 * Min(call.image.W, call.image.H)
        IN  /\ Len(output) = Len(input)
            /\ \A i \in 1..Len(input) :
                  /\ output[i].bbox = input[i].bbox
                  /\ IF \/ 100 * input[i].bbox[1] < margin
                        \/ 100 * input[i].bbox[2] < margin
                        \/ 100 * input[i].bbox[3] > 100 * call.image.W - margin
                        \/ 100 * input[i].bbox[4] > 100 * call.image.H - margin
                     THEN 10 * output[i].confidence[1] * input[i].confidence[2]
                            = 3 * input[i].confidence[1] * output[i].confidence[2]
                     ELSE output[i].confidence[1] * input[i].confidence[2]
                            = input[i].confidence[1] * output[i].confidence[2]

----------------------------------------------------------------------------
(* C21 *)

\* 0.4 * contrast + 0.4 * edge + 0.2 * brightness of the region of a box, in
\* tenths, each of the three terms clamped to [0, 100] on its own
QualityOfClampedTerms(bbox) ==
    LET st         == RegionStats(FaceRegion(bbox, call.image), call.image)
        contrast   == Max(0, Min(100, 2 * st.contrast))
        edge       == Max(0, Min(100, st.edge))
        brightness == Max(0, Min(100, 100 - Abs(st.mean - 127)))
    IN  4 * contrast + 4 * edge + 2 * brightness

\* The box has pixels inside the picture
HasRegion(bbox) ==
    LET region == FaceRegion(bbox, call.image)
    IN  region.x2 > region.x1 /\ region.y2 > region.y1

\* C21: the region-quality stage computes region_quality as 0.4 * contrast
\* + 0.4 * edge + 0.2 * brightness, each term clamped to [0, 100], multiplies
\* the confidence by region_quality / 100, and discards the candidate exactly
\* when region_quality <= 20.
C21_QualityOfClampedTerms ==
    FilterStagesRan =>
        LET input  == ret.stages[4].input
            output == ret.stages[4].output
        IN  \A i \in 1..Len(input) :
                HasRegion(input[i].bbox) =>
                    LET q == QualityOfClampedTerms(input[i].bbox)
                    IN  /\ (q > 200) <=>
                              \E k \in 1..Len(output) : output[k].bbox = input[i].bbox
                        /\ \A k \in 1..Len(output) :
                              output[k].bbox = input[i].bbox =>
                                  /\ output[k].region_quality = q
                                  /\ output[k].confidence[1] * input[i].confidence[2] * 1000
                                        = input[i].confidence[1] * q * output[k].confidence[2]

----------------------------------------------------------------------------
(* C22 *)

\* The survivors the cap stage dropped
DroppedByCap ==
    { f \in FacesOf(ret.stages[6].input) : f \notin FacesOf(ret.stages[6].output) }

\* No dropped survivor has a confidence above that of a kept one.
KeptAreMostConfident ==
    \A d \in DroppedByCap : \A k \in FacesOf(ret.stages[6].output) :
        Millionths(d.confidence) <= Millionths(k.confidence)

\* C22 as stated: the cap K is configured by the caller of the filter
\* (default 2 to 3); whichever K that is, filter_faces returns the min(K, n)
\* most confident of the n survivors and never more than K faces.
C22_CapConfiguredByCaller ==
    FilterStagesRan =>
        \A K \in 2..3 :
            /\ Len(ret.faces) = Min(K, Len(ret.stages[6].input))
            /\ KeptAreMostConfident

\* C22 amended: the cap is not configurable: filter_faces always passes
\* max_faces = 3 to the cap stage (whose own default of 2 is never used), so
\* it returns the min(3, n) most confident of the n survivors, never more
\* than 3 faces, and no dropped survivor has a confidence above that of a
\* kept one.
C22_CapIsThree ==
    FilterStagesRan =>
        /\ ret.faces = ret.stages[6].output
        /\ Len(ret.faces) = Min(3, Len(ret.stages[6].input))
        /\ FacesOf(ret.faces) \subseteq FacesOf(ret.stages[6].input)
        /\ KeptAreMostConfident

\* Four candidates survived the overlap stage; three are returned and the
\* one dropped is the least confident.
C22_Witness ==
    /\ FilterStagesRan
    /\ Len(ret.stages[6].input) = 4
    /\ Len(ret.faces) = 3
    /\ Cardinality(DroppedByCap) = 1

----------------------------------------------------------------------------
(* C23 *)

\* The resolver took its scoring path
TookScoringPath == IsSingleCall /\ ret.path = "scoring"

\* The top-scored candidate meets the three minimum criteria
TopIsAcceptable ==
    MeetsMinimumCriteria(ret.scored_faces[1].score, ret.scored_faces[1].face)

\* There is a second candidate and its score is less than 15 below the top
\* score
ScoresAreClose ==
    /\ Len(ret.scored_faces) > 1
    /\ ret.scored_faces[1].score - ret.scored_faces[2].score < 15000

\* Twice the area of the candidate ranked i-th
TwiceAreaOfRank(i) ==
    LET bbox == ret.scored_faces[i].face.bbox
    IN  2 * (bbox[3] - bbox[1]) * (bbox[4] - bbox[2])

\* C23 as stated: with an acceptable top candidate, a gap below 15 and a
\* second candidate of at least 1.5 times the top candidate's area, exactly
\* 1.5 times included, the resolver returns the second candidate; otherwise
\* the top-scored one.
C23_SecondOfAtLeastOneAndAHalf ==
    (TookScoringPath /\ TopIsAcceptable) =>
        ret.faces = IF ScoresAreClose /\ 2 * TwiceAreaOfRank(2) >= 3 * TwiceAreaOfRank(1)
                    THEN <<ret.scored_faces[2].face>>
                    ELSE <<ret.scored_faces[1].face>>

\* C23 amended: with an acceptable top candidate, a gap below 15 and a
\* second candidate of more than 1.5 times the top candidate's area, the
\* resolver returns the second candidate; otherwise, a second candidate of
\* exactly 1.5 times the area included, it returns the top-scored one.
C23_SecondOfMoreThanOneAndAHalf ==
    (TookScoringPath /\ TopIsAcceptable) =>
        ret.faces = IF ScoresAreClose /\ 2 * TwiceAreaOfRank(2) > 3 * TwiceAreaOfRank(1)
                    THEN <<ret.scored_faces[2].face>>
                    ELSE <<ret.scored_faces[1].face>>

\* The scores are close and the second candidate has exactly 1.5 times the
\* area of the top one: the top one is returned.
C23_Witness ==
    /\ TookScoringPath
    /\ TopIsAcceptable
    /\ ScoresAreClose
    /\ 2 * TwiceAreaOfRank(2) = 3 * TwiceAreaOfRank(1)
    /\ ret.faces = <<ret.scored_faces[1].face>>

----------------------------------------------------------------------------
(* C24 *)

IsEnhanceCall == call.op = "enhance_image"

\* The steps the band of the score asks for, each boundary in the upper band
StepsOfBand ==
    CASE call.quality_score < 30000 -> <<"contrast", "denoise", "deblur", "sharpen">>
      [] call.quality_score >= 30000 /\ call.quality_score < 50000 ->
             <<"contrast", "denoise", "sharpen">>
      [] call.quality_score >= 50000 /\ call.quality_score < 70000 -> <<"contrast">>
      [] call.quality_score >= 70000 -> <<>>

\* C24: enhance_image applies the steps of the score's band, in their order
\* (below 30: contrast, denoise, unsharp-kernel sharpen, second sharpen;
\* 30 to below 50: contrast, denoise, sharpen; 50 to below 70: contrast;
\* from 70: none); a step that fails leaves its input as it is and the
\* steps after it still run; the caller's image is not modified and the
\* result has its shape.
C24_StepsOfBandInOrder ==
    IsEnhanceCall =>
        LET Succeeds(step) == step \notin call.step_fails
        IN  /\ ret.enhanced.steps = SelectSeq(StepsOfBand, Succeeds)
            /\ [ret.enhanced EXCEPT !.steps = <<>>] = call.image
            /\ ret.image = call.image
            /\ ~ret.raised

\* A picture scored just below 30 on which the denoising fails: contrast,
\* the unsharp kernel and the second sharpening are applied all the same.
C24_Witness ==
    /\ IsEnhanceCall
    /\ call.quality_score = 29875
    /\ call.step_fails = {"denoise"}
    /\ ret.enhanced.steps = <<"contrast", "deblur", "sharpen">>
    /\ ret.image = call.image

----------------------------------------------------------------------------
(* C25 *)

\* C25: every face detect_optimal_faces returns is one of the raw candidates
\* it was given, with the same box and source, and no box is returned twice;
\* final count <= count after the initial filter <= raw count.
C25_NoFaceInventedOrMoved ==
    (IsOptimalCall /\ call.raw_faces # <<>>) =>
        /\ \A k \in 1..Len(ret.faces) :
              \E i \in 1..Len(call.raw_faces) :
                  /\ call.raw_faces[i].bbox = ret.faces[k].bbox
                  /\ call.raw_faces[i].model_used = ret.faces[k].model_used
        /\ \A k, l \in 1..Len(ret.faces) :
              k # l => ret.faces[k].bbox # ret.faces[l].bbox
        /\ ret.debug_info.final_count = Len(ret.faces)
        /\ ret.debug_info.original_count = Len(call.raw_faces)
        /\ ret.debug_info.final_count
              <= ret.debug_info.original_count - Len(ret.debug_info.removed_faces)
        /\ ret.debug_info.original_count - Len(ret.debug_info.removed_faces)
              <= ret.debug_info.original_count

\* The same candidate was given twice, next to a third one: it is returned
\* once, and the counts strictly decrease from raw to filtered to final.
C25_Witness ==
    /\ IsOptimalCall
    /\ Len(call.raw_faces) = 3
    /\ \E i, j \in 1..3 : i # j /\ call.raw_faces[i] = call.raw_faces[j]
    /\ Len(ret.debug_info.removed_faces) = 1
    /\ Len(ret.faces) = 1

----------------------------------------------------------------------------
(* C26 *)

\* C26: every face the resolver returns through its scoring path has itself
\* region_quality >= 40 and confidence >= 0.2, also when the tie-break
\* returns the second-ranked candidate.
C26_ReturnedFaceMeetsThresholds ==
    TookScoringPath =>
        \A k \in 1..Len(ret.faces) :
            /\ RegionQualityOr(ret.faces[k], 0) >= 400
            /\ 10 * ret.faces[k].confidence[1] >= 2 * ret.faces[k].confidence[2]

----------------------------------------------------------------------------
(* C27 *)

\* C27: within one detect_optimal_faces call the avg_quality and the
\* consistency_score recorded for the three strategies are the same, being
\* taken over all candidates that enter the strategy evaluation; two
\* strategies that keep the same number of faces have the same score.
C27_SameMetricsForAllStrategies ==
    (IsOptimalCall /\ call.raw_faces # <<>>) =>
        \A s, t \in DOMAIN ret.debug_info.strategies_tested :
            LET a == ret.debug_info.strategies_tested[s]
                b == ret.debug_info.strategies_tested[t]
            IN  /\ a.avg_quality = b.avg_quality
                /\ a.consistency_score = b.consistency_score
                /\ a.faces_found = b.faces_found =>
                      ret.debug_info.strategy_scores[s] = ret.debug_info.strategy_scores[t]

\* The three strategies kept 1, 2 and 3 faces of three candidates and got
\* three different scores on the same metrics.
C27_Witness ==
    /\ IsOptimalCall
    /\ call.raw_faces # <<>>
    /\ ret.debug_info.strategies_tested.conservative.faces_found = 1
    /\ ret.debug_info.strategies_tested.balanced.faces_found = 2
    /\ ret.debug_info.strategies_tested.aggressive.faces_found = 3
    /\ ret.debug_info.strategy_scores.conservative
          # ret.debug_info.strategy_scores.balanced
    /\ ret.debug_info.strategy_scores.balanced
          # ret.debug_info.strategy_scores.aggressive
    /\ ret.debug_info.strategies_tested.conservative.avg_quality
          = ret.debug_info.strategies_tested.aggressive.avg_quality

----------------------------------------------------------------------------
(* C28 *)

\* The position of a strategy in the catalog
CatalogIndex(s) == CHOOSE i \in 1..3 : StrategyNames[i] = s

\* C28: no strategy scores higher than the winner, and none that comes
\* before it in the catalog order conservative, balanced, aggressive scores
\* as high; when all three scores are equal the conservative strategy wins
\* and its filtered set is the output.
C28_EarliestOfTiedWins ==
    (IsOptimalCall /\ call.raw_faces # <<>>) =>
        LET scores == ret.debug_info.strategy_scores
            winner == ret.debug_info.final_strategy
        IN  /\ \A s \in DOMAIN scores :
                  /\ scores[s] <= scores[winner]
                  /\ CatalogIndex(s) < CatalogIndex(winner) => scores[s] < scores[winner]
            /\ (scores.conservative = scores.balanced
                    /\ scores.balanced = scores.aggressive) =>
                  /\ winner = "conservative"
                  /\ BoxesOf(ret.faces) =
                        BoxesOf(_test_detection_strategy(
                            _initial_quality_filter(call.raw_faces, call.image).faces,
                            call.image, detection_strategies["conservative"]).faces)
            /\ ret.debug_info.final_count
                  = ret.debug_info.strategies_tested[winner].faces_found

\* All three strategies tie while the aggressive one found more faces than
\* the conservative one, whose set is the output.
C28_Witness ==
    /\ IsOptimalCall
    /\ call.raw_faces # <<>>
    /\ ret.debug_info.final_strategy = "conservative"
    /\ ret.debug_info.strategy_scores.conservative
          = ret.debug_info.strategy_scores.aggressive
    /\ ret.debug_info.strategy_scores.conservative
          = ret.debug_info.strategy_scores.balanced
    /\ ret.debug_info.strategies_tested.aggressive.faces_found
          > ret.debug_info.strategies_tested.conservative.faces_found

----------------------------------------------------------------------------
(* C29 *)

\* The raw candidate a returned face came from
RawOf(f) ==
    call.raw_faces[CHOOSE j \in 1..Len(call.raw_faces) : call.raw_faces[j].bbox = f.bbox]

MaxQualityOf(faces) == MaxSeq([i \in 1..Len(faces) |-> faces[i].strategy_quality])

\* min(0.99, c * (0.5 + 0.5 * q / max_q)) as a fraction in lowest terms
ScaledAndCapped(c, q, max_q) ==
    LET scaled == IF max_q > 0 THEN Frac(c[1] * (max_q + q), c[2] * 2 * max_q)
                  ELSE Frac(c[1], c[2])
    IN  IF 100 * scaled[1] > 99 * scaled[2] THEN <<99, 100>> ELSE scaled

\* C29: detect_optimal_faces returns the faces of the winning strategy, in
\* their order and with their boxes; a single returned face has the
\* confidence of its raw candidate; of two or more, each has
\* min(0.99, c * (0.5 + 0.5 * q / max_q)) for the confidence c of its raw
\* candidate, which is at most c, and min(0.99, c) where q = max_q.
C29_ConfidenceNeverIncreased ==
    (IsOptimalCall /\ call.raw_faces # <<>>) =>
        LET winner == _test_detection_strategy(
                          _initial_quality_filter(call.raw_faces, call.image).faces,
                          call.image,
                          detection_strategies[ret.debug_info.final_strategy]).faces
            max_q == MaxQualityOf(ret.faces)
        IN  /\ Len(ret.faces) = Len(winner)
            /\ \A i \in 1..Len(ret.faces) :
                  LET f == ret.faces[i]
                      c == RawOf(f).confidence
                  IN  /\ f.bbox = winner[i].bbox
                      /\ \E j \in 1..Len(call.raw_faces) : call.raw_faces[j].bbox = f.bbox
                      /\ f.confidence[1] * c[2] <= c[1] * f.confidence[2]
                      /\ Len(ret.faces) <= 1 => f.confidence = c
                      /\ Len(ret.faces) >= 2 =>
                            /\ f.confidence = ScaledAndCapped(c, f.strategy_quality, max_q)
                            /\ f.strategy_quality = max_q =>
                                  f.confidence = ScaledAndCapped(c, 1, 1)

\* Two or more faces are returned: one of less than the highest quality
\* with less than the confidence it came with, and one of the highest
\* quality that came with confidence 1.0 and leaves with 0.99.
C29_Witness ==
    /\ IsOptimalCall
    /\ Len(ret.faces) >= 2
    /\ \E i \in 1..Len(ret.faces) :
          /\ ret.faces[i].strategy_quality < MaxQualityOf(ret.faces)
          /\ ret.faces[i].confidence[1] * RawOf(ret.faces[i]).confidence[2]
                < RawOf(ret.faces[i]).confidence[1] * ret.faces[i].confidence[2]
    /\ \E i \in 1..Len(ret.faces) :
          /\ ret.faces[i].strategy_quality = MaxQualityOf(ret.faces)
          /\ RawOf(ret.faces[i]).confidence = <<100, 100>>
          /\ ret.faces[i].confidence = <<99, 100>>

----------------------------------------------------------------------------
(* C30 *)

\* C30: asked for debug information, filter_faces,
\* optimize_for_single_person and detect_optimal_faces each return a pair
\* of the faces and a debug_info, for an empty list of candidates too, so
\* that unpacking two values from the result succeeds.
C30_PairForEveryInput ==
    /\ (IsFilterCall \/ IsSingleCall) => ret.paired
    /\ IsOptimalCall => {"faces", "debug_info"} \subseteq DOMAIN ret

====
